---- MODULE Spec2Model ----
(***************************************************************************)
(* Model of ngenate-flex-storage: the polymorphic StorageHandle, the       *)
(* casting subsystem (casting.rs), the ViewStorageController state machine *)
(* and the KeyItemViewStorage backend with its retained lock on the source.*)
(*                                                                         *)
(* Two allocations (Arc<RwLock<..>>) exist: "A", a plain backend that      *)
(* serves as the source, and "V", a KeyItemViewStorage built with          *)
(* StorageHandle::new_with_view_controller.  Handles live in slots; every  *)
(* public operation is one action.  A call that panics unwinds (poisoning  *)
(* the write-locked RwLocks it holds); a call that waits in a blocking     *)
(* lock acquisition is kept in `pending` until the lock becomes free.      *)
(*                                                                         *)
(* Spec     : a VecStorage source and a view over it, with the controller, *)
(*            the backend's ViewStorageSetup methods and the handle locks. *)
(* SpecCast : one backend of any of the eight concrete kinds, with clones, *)
(*            casts, storage_ptr_into_base, guards and item writes.        *)
(* SpecView : the view's lookups and iterators over a fixed selection.     *)
(* SpecKey  : lookups with a signed key type, with and without a guard.    *)
(* SpecConc : threads inside status() and create_*_view of one controller. *)
(* SpecWrite: item writes through a write guard on the view.               *)
(* SpecVec  : MutKeyItemStorage::insert on a VecStorage.                   *)
(* SpecCtor : construction of a backend for each key type.                 *)
(***************************************************************************)
EXTENDS Integers, Sequences, FiniteSets, TLC

VARIABLES
    kind,      \* concrete type behind each allocation (fixed at construction)
    rc,        \* strong count of each allocation's Arc
    slots,     \* the live StorageHandle values held by the callers
    lock,      \* state of each allocation's RwLock
    status,    \* value of the controller's Arw<InputStorageLockStatus>
    slock,     \* state of the RwLock around the status cell
    view,      \* fields of the KeyItemViewStorage behind "V"
    data,      \* items of the source backend "A", by key
    pending,   \* a call waiting inside a blocking lock acquisition
    last       \* the last call made and what it returned

vars == <<kind, rc, slots, lock, status, slock, view, data, pending, last>>

----------------------------------------------------------------------------
(* Bounds of the model *)

\* number of handle values the callers keep alive at the same time
MaxHandles == 2

Slots == 1..MaxHandles
Allocs == {"A", "V"}
Keys == {0, 1}
Items == {0, 1}
KeySeqs == {<<0>>, <<1, 0>>}

\* longest selection list given to a view in SpecView
MaxSelLen == 3
\* largest key put in a selection list: the source holds the keys in Keys,
\* so this key is absent from it
MaxSelKey == 2

\* number of threads that can be inside status(), or inside the gate of
\* try_read / try_write, at the same time in SpecConc
MaxStatusReaders == 1

\* longest VecStorage of SpecVec
MaxVecLen == 4

\* number of negative keys looked up in SpecKey: values of a signed key type
\* that cannot be converted to usize
MaxNegKey == 1

SelKeys == 0..MaxSelKey
Selections == UNION {[1..n -> SelKeys] : n \in 0..MaxSelLen}
\* the view keys looked up: every position of a selection and one beyond
ViewPositions == 0..MaxSelLen

\* the keys of a signed key type: looked up, and put in selection lists
SignedKeys == (0 - MaxNegKey)..MaxSelLen
SignedSelections ==
    UNION {[1..n -> (0 - MaxNegKey)..MaxSelKey] : n \in 0..MaxSelLen}

----------------------------------------------------------------------------
(* Types *)

BaseKinds == {"Vec", "Sparse", "HashMap", "Val"}
KeyTypes == {"usize", "u8"}
ItemTypes == {"i32", "i64"}

\* the key types backends are constructed with in SpecCtor
CtorKeyTypes == {"usize", "u8", "i32", "u64"}

\* VecStorage<K, I>, SparseSetVecStorage<K, I>, HashMapStorage<K, I>, ValStorage<K, I>
Plain(k, K, I) == [shape |-> "Plain", over |-> k, key |-> K, item |-> I]
\* KeyItemViewStorage<k<K, I>, K, I>
ViewOf(k, K, I) == [shape |-> "View", over |-> k, key |-> K, item |-> I]

\* the trait objects a handle can be cast to: the S of StorageHandle<S> is
\* "Storage" (dyn Storage), one of these, or "Sized" (a concrete type)
DynTraits == {"KeyStorage", "KeyItemStorage", "ViewStorageSetup",
              "MutKeyItemStorage", "ItemSliceStorage"}
InputStorageLockStatus == {"None", "Readable", "Writable"}

NoHandle ==
    [base_storage |-> "none", storage |-> "none", cap |-> "none", vsc |-> "none",
     key_type_id |-> "none", item_type_id |-> "none", guard |-> "none"]

Live(h) == h.storage # "none"

NoPending == [op |-> "none", via |-> "none", slot |-> 0, keys |-> <<>>]

FreshLock == [readers |-> 0, writer |-> FALSE, poisoned |-> FALSE]
FreshView == [view_keys |-> <<>>, input_storage |-> "none",
              read_guard |-> FALSE, write_guard |-> FALSE]

----------------------------------------------------------------------------
(* std::sync::RwLock *)

\* RwLock::try_read: fails when write-locked or poisoned
CanTryRead(l) == ~l.writer /\ ~l.poisoned
\* RwLock::try_write: fails when read- or write-locked or poisoned
CanTryWrite(l) == ~l.writer /\ l.readers = 0 /\ ~l.poisoned

AddReader(l) == [l EXCEPT !.readers = @ + 1]
DropReader(l) == [l EXCEPT !.readers = @ - 1]
SetWriter(l) == [l EXCEPT !.writer = TRUE]
DropWriter(l) == [l EXCEPT !.writer = FALSE]
\* a write guard dropped while its thread is panicking poisons the lock
PoisonWriter(l) == [l EXCEPT !.writer = FALSE, !.poisoned = TRUE]

----------------------------------------------------------------------------
(* std::sync::Arc: the strong counts c after one Arc on allocation a is    *)
(* cloned or dropped ("none": an absent Option, nothing happens)           *)

ArcClone(c, a) == IF a = "none" THEN c ELSE [c EXCEPT ![a] = @ + 1]
ArcDrop(c, a) == IF a = "none" THEN c ELSE [c EXCEPT ![a] = @ - 1]

----------------------------------------------------------------------------
(* casting.rs *)

\* candidate lists of define_cast_to_dyn_fn!, in source order
CandidatesKeyItem(K, I) ==
    <<Plain("Vec", K, I), Plain("Sparse", K, I), Plain("HashMap", K, I),
      Plain("Val", K, I), ViewOf("Vec", K, I), ViewOf("Sparse", K, I),
      ViewOf("HashMap", K, I), ViewOf("Val", K, I)>>

CandidatesMutKeyItem(K, I) ==
    <<Plain("Vec", K, I), Plain("Sparse", K, I), Plain("HashMap", K, I),
      ViewOf("Vec", K, I), ViewOf("Sparse", K, I), ViewOf("HashMap", K, I)>>

CandidatesKey(K, I) ==
    <<Plain("Vec", K, I), Plain("Sparse", K, I), Plain("HashMap", K, I),
      Plain("Val", K, I), ViewOf("Vec", K, I), ViewOf("Sparse", K, I),
      ViewOf("HashMap", K, I), ViewOf("Val", K, I)>>

CandidatesViewSetup(K, I) ==
    <<ViewOf("Vec", K, I), ViewOf("Sparse", K, I), ViewOf("HashMap", K, I),
      ViewOf("Val", K, I)>>

CandidatesSlice(K, I) ==
    <<Plain("Vec", K, I), Plain("Sparse", K, I), Plain("Val", K, I)>>

CandidatesMutSlice(K, I) ==
    <<Plain("Vec", K, I), Plain("Sparse", K, I), Plain("Val", K, I)>>

CastTargets == DynTraits \cup {"MutItemSliceStorage"}

Candidates(trait, K, I) ==
    CASE trait = "KeyItemStorage" -> CandidatesKeyItem(K, I)
      [] trait = "MutKeyItemStorage" -> CandidatesMutKeyItem(K, I)
      [] trait = "KeyStorage" -> CandidatesKey(K, I)
      [] trait = "ViewStorageSetup" -> CandidatesViewSetup(K, I)
      [] trait = "ItemSliceStorage" -> CandidatesSlice(K, I)
      [] trait = "MutItemSliceStorage" -> CandidatesMutSlice(K, I)

Range(seq) == {seq[i] : i \in 1..Len(seq)}

\* fault injection: the TypeId of the Arc<RwLock<..>> wrapper is compared
\* instead of the payload's, so no target ever matches
DynStorageIntoSizedWrapperId(lk, a, target) ==
    IF ~CanTryRead(lk[a]) THEN "Panic" ELSE "Err"

\* fault injection: the pointer is reinterpreted without the TypeId comparison
DynStorageIntoSizedUnchecked(lk, a, target) ==
    IF ~CanTryRead(lk[a]) THEN "Panic" ELSE "Ok"

\* dyn_storage_into_sized: source_storage.try_read().unwrap() panics when the
\* lock is write-held or poisoned; then the TypeId comparison; then the
\* pointer reinterpretation of the same allocation.
DynStorageIntoSized(lk, a, target) ==
    IF ~CanTryRead(lk[a]) THEN "Panic"
    ELSE IF kind[a] # target THEN "Err"
    ELSE "Ok"

\* the $( if let Ok(..) = dyn_storage_into_sized(..) { return Ok } )* chain
RECURSIVE TryCandidates(_, _, _, _)
TryCandidates(lk, a, cands, i) ==
    IF i > Len(cands) THEN "Err"
    ELSE LET r == DynStorageIntoSized(lk, a, cands[i])
         IN  IF r = "Err" THEN TryCandidates(lk, a, cands, i + 1) ELSE r

\* a function generated by define_cast_to_dyn_fn!
CastToDyn(lk, a, trait, K, I) == TryCandidates(lk, a, Candidates(trait, K, I), 1)

\* fault injection: the Arc is turned into a raw pointer before the TypeId
\* comparison, so a failed downcast never gives its reference back
DynStorageIntoSizedRcLeaks(c, a, r) == c

\* the strong counts after dyn_storage_into_sized(source_storage) returned r:
\* Arc::into_raw / Arc::from_raw hand the argument's count to the result; an
\* Err return or a panic drops the argument
DynStorageIntoSizedRc(c, a, r) == IF r = "Ok" THEN c ELSE ArcDrop(c, a)

\* each candidate is given source_storage.clone()
RECURSIVE TryCandidatesRc(_, _, _, _, _)
TryCandidatesRc(c, lk, a, cands, i) ==
    IF i > Len(cands) THEN c
    ELSE LET r == DynStorageIntoSized(lk, a, cands[i])
             c1 == DynStorageIntoSizedRc(ArcClone(c, a), a, r)
         IN  IF r = "Err" THEN TryCandidatesRc(c1, lk, a, cands, i + 1) ELSE c1

\* the strong counts after a define_cast_to_dyn_fn! function returned:
\* source_storage itself is dropped when the function is left
CastToDynRc(c, lk, a, trait, K, I) ==
    ArcDrop(TryCandidatesRc(c, lk, a, Candidates(trait, K, I), 1), a)

----------------------------------------------------------------------------
(* storage_handle/view_storage_controller.rs: status() *)

\* ViewStorageController::status: try_read on the status cell
ControllerStatus(sl, st) ==
    IF ~CanTryRead(sl) THEN "Err" ELSE st

----------------------------------------------------------------------------
(* storage_handle/handle.rs *)

\* the view-controller gate shared by StorageHandle::try_read and try_write
GateRefuses(h) ==
    /\ h.vsc # "none"
    /\ ControllerStatus(slock, status) \in {"Err", "None"}

\* StorageHandle::try_read
HandleTryRead(h) ==
    IF GateRefuses(h) THEN "Err"
    ELSE IF CanTryRead(lock[h.storage]) THEN "Ok" ELSE "Err"

\* StorageHandle::try_write
HandleTryWrite(h) ==
    IF GateRefuses(h) THEN "Err"
    ELSE IF CanTryWrite(lock[h.storage]) THEN "Ok" ELSE "Err"

\* the functions generated by define_cast_storage_ptr_to_dyn_fn!
CastStoragePtrToDyn(h, trait, K, I) ==
    IF I # h.item_type_id THEN "Err"
    ELSE CastToDyn(lock, h.storage, trait, K, I)

\* the handle a successful cast_to_* returns
CastHandle(h, cap) ==
    [base_storage |-> h.base_storage, storage |-> h.storage, cap |-> cap,
     vsc |-> h.vsc, key_type_id |-> h.key_type_id,
     item_type_id |-> h.item_type_id, guard |-> "none"]

\* StorageHandle::cast_to_sized_storage
CastToSizedStorage(h, target) == DynStorageIntoSized(lock, h.storage, target)

\* fault injection: the root reference is read through try_read, so the
\* conversion fails while a write guard is outstanding
StoragePtrIntoBaseLocks(h) ==
    IF CanTryRead(lock[h.base_storage])
    THEN [base_storage |-> h.base_storage, storage |-> h.base_storage,
          cap |-> "Storage", vsc |-> "none", key_type_id |-> h.key_type_id,
          item_type_id |-> h.item_type_id, guard |-> "none"]
    ELSE NoHandle

\* storage_ptr_into_base: StorageHandle::new(base, base, key_type_id, item_type_id)
StoragePtrIntoBase(h) ==
    [base_storage |-> h.base_storage, storage |-> h.base_storage,
     cap |-> "Storage", vsc |-> "none", key_type_id |-> h.key_type_id,
     item_type_id |-> h.item_type_id, guard |-> "none"]

\* fault injection: clone builds its handle over the other allocation, as a
\* deep copy of the backend would
CloneHandleCopies(h) ==
    LET other == CHOOSE a \in Allocs : a # h.storage
    IN  [base_storage |-> other, storage |-> other, cap |-> h.cap,
         vsc |-> h.vsc, key_type_id |-> h.key_type_id,
         item_type_id |-> h.item_type_id, guard |-> "none"]

\* fault injection: the clone is built without the view controller of the
\* handle it is cloned from
CloneHandleWithoutController(h) ==
    [base_storage |-> h.base_storage, storage |-> h.storage, cap |-> h.cap,
     vsc |-> "none", key_type_id |-> h.key_type_id,
     item_type_id |-> h.item_type_id, guard |-> "none"]

\* Clone for StorageHandle
CloneHandle(h) ==
    [base_storage |-> h.base_storage, storage |-> h.storage, cap |-> h.cap,
     vsc |-> h.vsc, key_type_id |-> h.key_type_id,
     item_type_id |-> h.item_type_id, guard |-> "none"]

\* Option<T>: None and Some(v)
None == <<>>
Some(v) == <<v>>

\* KeyItemStorage::get for VecStorage: self.data.get(key_to_index(index)),
\* d being the items by index
VecGet(d, k) == IF k \in DOMAIN d THEN Some(d[k]) ELSE None

\* KeyStorage::contains for VecStorage: key_to_index(key) < self.data.len()
VecContains(d, k) == k \in DOMAIN d

\* handle.try_read().unwrap().get(k) on a handle over the source backend:
\* the item the allocation behind handle.storage holds at key k, d being the
\* items of the source backend
HandleGet(d, h, k) == IF h.storage = "A" THEN VecGet(d, k) ELSE None

\* the Arcs a handle owns on allocation a: base_storage, storage and the
\* controller's view_storage
Refs(h, a) ==
    (IF h.base_storage = a THEN 1 ELSE 0) + (IF h.storage = a THEN 1 ELSE 0)
        + (IF h.vsc = a THEN 1 ELSE 0)

\* Clone for StorageHandle: the three Arcs are cloned
CloneHandleRc(c, h) ==
    ArcClone(ArcClone(ArcClone(c, h.base_storage), h.storage), h.vsc)

\* drop of a StorageHandle: the three Arcs are dropped
DropHandleRc(c, h) ==
    ArcDrop(ArcDrop(ArcDrop(c, h.base_storage), h.storage), h.vsc)

\* define_cast_storage_ptr_to_dyn_fn!: self.storage.clone() goes to the
\* casting function; on success the new handle takes base_storage.clone(),
\* key_item_storage.clone() and the controller's clone, then the local
\* key_item_storage and self are dropped; on failure self is dropped
CastStoragePtrToDynRc(c, h, trait, K, I) ==
    IF I # h.item_type_id THEN DropHandleRc(c, h)
    ELSE LET r == CastToDyn(lock, h.storage, trait, K, I)
             c1 == CastToDynRc(ArcClone(c, h.storage), lock, h.storage,
                               trait, K, I)
         IN  IF r = "Ok"
             THEN DropHandleRc(ArcDrop(CloneHandleRc(c1, h), h.storage), h)
             ELSE DropHandleRc(c1, h)

\* cast_to_sized_storage: self.storage.clone() goes to dyn_storage_into_sized;
\* on success the result is moved into the new handle next to
\* base_storage.clone() and the controller's clone; self is dropped
CastToSizedStorageRc(c, h, target) ==
    LET r == DynStorageIntoSized(lock, h.storage, target)
        c1 == DynStorageIntoSizedRc(ArcClone(c, h.storage), h.storage, r)
    IN  IF r = "Ok"
        THEN DropHandleRc(ArcClone(ArcClone(c1, h.base_storage), h.vsc), h)
        ELSE DropHandleRc(c1, h)

\* storage_ptr_into_base: base_storage.clone() twice, then the argument is
\* dropped
StoragePtrIntoBaseRc(c, h) ==
    DropHandleRc(ArcClone(ArcClone(c, h.base_storage), h.base_storage), h)

----------------------------------------------------------------------------
(* storage_types/view/view_storage.rs: ViewStorageSetup for KeyItemViewStorage *)
(* Each operator takes the lock table and the view's fields as the call    *)
(* finds them and returns the outcome with the values the call leaves.     *)

\* InputStorage of KeyItemViewStorage<InputStorage, Key, Item>
InputStorageType(vt) == Plain(vt.over, vt.key, vt.item)

\* dropping the retained guards releases the source's lock
ReleaseGuards(lk, vw) ==
    IF vw.input_storage = "none" THEN lk
    ELSE LET a == vw.input_storage
             l1 == IF vw.read_guard THEN DropReader(lk[a]) ELSE lk[a]
             l2 == IF vw.write_guard THEN DropWriter(l1) ELSE l1
         IN  [lk EXCEPT ![a] = l2]

\* fault injection: clear_view empties the key list but keeps the guards
ViewClearViewKeepsLock(lk, vw) ==
    [res |-> "Ok", lock |-> lk, view |-> [vw EXCEPT !.view_keys = <<>>]]

\* fault injection: clear_view drops the guards but keeps the key list
ViewClearViewKeepsKeys(lk, vw) ==
    [res |-> "Ok",
     lock |-> ReleaseGuards(lk, vw),
     view |-> [vw EXCEPT !.read_guard = FALSE, !.write_guard = FALSE]]

\* KeyItemViewStorage::clear_view
ViewClearView(lk, vw) ==
    [res |-> "Ok",
     lock |-> ReleaseGuards(lk, vw),
     view |-> [vw EXCEPT !.view_keys = <<>>, !.read_guard = FALSE,
                         !.write_guard = FALSE]]

\* KeyItemViewStorage::set_input_storage: clear_view, then
\* dyn_storage_into_sized(input).unwrap()
ViewSetInputStorage(lk, vw, input) ==
    LET c == ViewClearView(lk, vw)
        r == DynStorageIntoSized(c.lock, input, InputStorageType(kind["V"]))
    IN  IF r = "Ok"
        THEN [res |-> "Ok", lock |-> c.lock,
              view |-> [c.view EXCEPT !.input_storage = input]]
        ELSE [res |-> "Panic", lock |-> c.lock, view |-> c.view]

\* KeyItemViewStorage::get_input_storage
ViewGetInputStorage(vw) ==
    IF vw.input_storage = "none" THEN None ELSE Some(vw.input_storage)

\* ArcRwLockReadGuardian::take: a blocking RwLock::read
TakeRead(l) ==
    IF l.writer THEN "Block" ELSE IF l.poisoned THEN "Err" ELSE "Ok"

\* ArcRwLockWriteGuardian::take: a blocking RwLock::write
TakeWrite(l) ==
    IF l.writer \/ l.readers > 0 THEN "Block"
    ELSE IF l.poisoned THEN "Err" ELSE "Ok"

\* KeyItemViewStorage::create_read_view
ViewCreateReadView(lk, vw, keys) ==
    IF vw.input_storage = "none" THEN [res |-> "Err", lock |-> lk, view |-> vw]
    ELSE LET a == vw.input_storage
             t == TakeRead(lk[a])
         IN  IF t # "Ok" THEN [res |-> t, lock |-> lk, view |-> vw]
             ELSE \* the new guard is taken before the old read_guard is dropped
                  [res |-> "Ok",
                   lock |-> [lk EXCEPT ![a] =
                               IF vw.read_guard THEN @ ELSE AddReader(@)],
                   view |-> [vw EXCEPT !.read_guard = TRUE, !.view_keys = keys]]

\* KeyItemViewStorage::create_write_view
ViewCreateWriteView(lk, vw, keys) ==
    IF vw.input_storage = "none" THEN [res |-> "Err", lock |-> lk, view |-> vw]
    ELSE LET a == vw.input_storage
             t == TakeWrite(lk[a])
         IN  IF t # "Ok" THEN [res |-> t, lock |-> lk, view |-> vw]
             ELSE [res |-> "Ok",
                   lock |-> [lk EXCEPT ![a] = SetWriter(@)],
                   view |-> [vw EXCEPT !.write_guard = TRUE, !.view_keys = keys]]

ViewCreateView(mode, lk, vw, keys) ==
    IF mode = "create_read_view" THEN ViewCreateReadView(lk, vw, keys)
    ELSE ViewCreateWriteView(lk, vw, keys)

\* the Arcs the view's fields own on allocation a: input_storage and the
\* Arc inside each retained guardian
ViewRefs(vw, a) ==
    IF a = "none" \/ vw.input_storage # a THEN 0
    ELSE 1 + (IF vw.read_guard THEN 1 ELSE 0) + (IF vw.write_guard THEN 1 ELSE 0)

\* the Arcs a call waiting in take() owns on allocation a: the input.clone()
\* given to take() and, for a controller call, the cast view_storage.clone()
PendingRefs(p, vw, a) ==
    IF p.op = "none" THEN 0
    ELSE (IF vw.input_storage = a THEN 1 ELSE 0)
             + (IF p.via = "controller" /\ a = "V" THEN 1 ELSE 0)

\* the strong counts after a call on the view backend: the Arcs moved into
\* or dropped from the view's fields and the waiting call (every temporary
\* clone made by a call that returned is dropped with it)
ViewCallRc(c, vw0, p0, vw1, p1) ==
    [a \in Allocs |-> c[a] + ViewRefs(vw1, a) - ViewRefs(vw0, a)
                        + PendingRefs(p1, vw1, a) - PendingRefs(p0, vw0, a)]

----------------------------------------------------------------------------
(* storage_types/view/view_storage.rs: lookups and iteration; d is the      *)
(* source backend the retained guard dereferences to                        *)

\* self.view_keys.get(key_to_index(key))
ViewKeysGet(vw, key) ==
    IF key < Len(vw.view_keys) THEN Some(vw.view_keys[key + 1]) ELSE None

\* fault injection: get as it was before it learned to use the write guard
KeyItemViewGetReadGuardOnly(vw, d, key) ==
    IF vw.read_guard
    THEN LET entry == ViewKeysGet(vw, key)
         IN  IF entry # None THEN VecGet(d, entry[1]) ELSE None
    ELSE None

\* KeyItemStorage::get for KeyItemViewStorage: through the read guard, else
\* through the write guard, else None
KeyItemViewGet(vw, d, key) ==
    IF vw.read_guard
    THEN LET entry == ViewKeysGet(vw, key)
         IN  IF entry # None THEN VecGet(d, entry[1]) ELSE None
    ELSE IF vw.write_guard
    THEN LET entry == ViewKeysGet(vw, key)
         IN  IF entry # None THEN VecGet(d, entry[1]) ELSE None
    ELSE None

\* KeyStorage::contains for KeyItemViewStorage: through the read guard only
KeyItemViewContains(vw, d, key) ==
    IF vw.read_guard
    THEN LET entry == ViewKeysGet(vw, key)
         IN  IF entry # None THEN VecContains(d, entry[1]) ELSE FALSE
    ELSE FALSE

\* Iterator for KeysToItemsIter, collected: next() takes the next selected
\* key, ends the iteration if the source has no item for it and otherwise
\* yields (*key, item)
RECURSIVE KeysToItemsIter(_, _, _)
KeysToItemsIter(d, keys, i) ==
    IF i > Len(keys) THEN <<>>
    ELSE LET item == VecGet(d, keys[i])
         IN  IF item = None THEN <<>>
             ELSE <<<<keys[i], item[1]>>>> \o KeysToItemsIter(d, keys, i + 1)

\* key_item_iter_static / key_item_iter, collected
KeyItemViewIter(vw, d) ==
    IF vw.read_guard \/ vw.write_guard
    THEN KeysToItemsIter(d, vw.view_keys, 1)
    ELSE "Panic"

\* item_iter, collected: key_item_iter_static().map(|(_, item)| item)
KeyItemViewItemIter(vw, d) ==
    LET r == KeyItemViewIter(vw, d)
    IN  IF vw.read_guard \/ vw.write_guard
        THEN [j \in 1..Len(r) |-> r[j][2]]
        ELSE "Panic"

\* key.try_into() of key_to_index: the index, or nothing for a key that is
\* not a usize
KeyTryInto(k) == IF k >= 0 THEN Some(k) ELSE None

\* key_to_index panics when the conversion fails
KeyToIndexPanics(k) == KeyTryInto(k) = None

\* the per-key lookups of VecStorage and ValStorage start with key_to_index;
\* those of HashMapStorage and SparseSetVecStorage do not convert the key
SourceLookupPanics(kd, k) ==
    kd.over \in {"Vec", "Val"} /\ KeyToIndexPanics(k)

\* fault injection: the lookup converts the key before it looks for its
\* guard
ViewLookupPanicsBeforeGuard(vw, held, key) ==
    \/ KeyToIndexPanics(key)
    \/ /\ held
       /\ ViewKeysGet(vw, key) # None
       /\ SourceLookupPanics(kind[vw.input_storage], ViewKeysGet(vw, key)[1])

\* a per-key lookup on the view that finds the guard it consults (held)
\* calls key_to_index(key) and then the source's lookup with the selected key
ViewLookupPanics(vw, held, key) ==
    /\ held
    /\ \/ KeyToIndexPanics(key)
       \/ /\ ViewKeysGet(vw, key) # None
          /\ SourceLookupPanics(kind[vw.input_storage], ViewKeysGet(vw, key)[1])

\* KeyStorage::keys_iter for KeyItemViewStorage:
\* self.view_keys.iter().cloned(), collected
KeyItemViewKeysIter(vw) == vw.view_keys

\* Storage::len for KeyItemViewStorage
KeyItemViewLen(vw) == Len(vw.view_keys)

\* Item::default() of the item type i32
DefaultItem == 0

\* a Vec<Item> as the function from its indices 0..len-1 to its items
VecOf(seq) == [i \in 0..(Len(seq) - 1) |-> seq[i + 1]]

\* Storage::len for VecStorage: self.data.len()
VecLen(d) == Cardinality(DOMAIN d)

\* Vec::resize(n, value) when n > len
VecResize(d, n, value) ==
    [i \in 0..(n - 1) |-> IF i < VecLen(d) THEN d[i] ELSE value]

\* Vec::insert(index, item): the items from index on move one place right
VecInsertAndShift(d, index, item) ==
    [i \in 0..VecLen(d) |-> IF i < index THEN d[i]
                            ELSE IF i = index THEN item ELSE d[i - 1]]

\* MutKeyItemStorage::insert for VecStorage: resize(index, default) when
\* index > len, then self.data.insert(index, item)
VecStorageInsert(d, key, item) ==
    LET grown == IF key > VecLen(d) THEN VecResize(d, key, DefaultItem) ELSE d
    IN  VecInsertAndShift(grown, key, item)

\* MutKeyItemStorage::get_mut for VecStorage: self.data.get_mut(index); the
\* result is the key of the item the returned &mut points to
VecGetMut(d, k) == IF k \in DOMAIN d THEN Some(k) ELSE None

\* fault injection: get_mut indexes the source with the view key itself,
\* without going through the selection list
KeyItemViewGetMutDirect(vw, d, key) ==
    IF vw.write_guard THEN VecGetMut(d, key) ELSE None

\* MutKeyItemStorage::get_mut for KeyItemViewStorage: through the write guard
\* only; the result is the source key of the item the &mut points to
KeyItemViewGetMut(vw, d, key) ==
    IF vw.write_guard
    THEN LET entry == ViewKeysGet(vw, key)
         IN  IF entry # None THEN VecGetMut(d, entry[1]) ELSE None
    ELSE None

\* MutKeyItemStorage::insert for KeyItemViewStorage: *existing_item = item on
\* what get_mut returns, a panic when it returns None
KeyItemViewInsert(vw, d, key, item) ==
    LET existing == KeyItemViewGetMut(vw, d, key)
    IN  IF existing = None THEN [res |-> "Panic", data |-> d]
        ELSE [res |-> "Ok", data |-> [d EXCEPT ![existing[1]] = item]]

----------------------------------------------------------------------------
(* storage_handle/view_storage_controller.rs *)
(* Each operator returns the outcome and the values the call leaves in     *)
(* lock, view, status and the status cell's lock.                          *)

Out(r, lk, vw, st, sl) ==
    [res |-> r, lock |-> lk, view |-> vw, status |-> st, slock |-> sl]

\* fault injection: clear_view clears the backend but never resets the status
ControllerClearViewKeepsStatus(K, I) ==
    LET c == CastToDyn(lock, "V", "ViewStorageSetup", K, I)
    IN  IF c # "Ok" THEN Out(c, lock, view, status, slock)
        ELSE IF ~CanTryWrite(lock["V"]) THEN Out("Err", lock, view, status, slock)
        ELSE LET v == ViewClearView(lock, view)
             IN  IF ~CanTryWrite(slock)
                 THEN Out("Err", v.lock, v.view, status, slock)
                 ELSE Out("Ok", v.lock, v.view, status, slock)

\* ViewStorageController::clear_view
ControllerClearView(K, I) ==
    LET c == CastToDyn(lock, "V", "ViewStorageSetup", K, I)
    IN  IF c # "Ok" THEN Out(c, lock, view, status, slock)
        ELSE IF ~CanTryWrite(lock["V"]) THEN Out("Err", lock, view, status, slock)
        ELSE LET v == ViewClearView(lock, view)
             IN  IF ~CanTryWrite(slock)
                 THEN Out("Err", v.lock, v.view, status, slock)
                 ELSE Out("Ok", v.lock, v.view, "None", slock)

\* fault injection: set_input without the "status must be None" check
ControllerSetInputNoStatusCheck(input, K, I) ==
    IF ~CanTryRead(slock) THEN Out("Err", lock, view, status, slock)
    ELSE LET c == CastToDyn(lock, "V", "ViewStorageSetup", K, I)
         IN  IF c # "Ok" THEN Out(c, lock, view, status, slock)
             ELSE IF ~CanTryWrite(lock["V"])
             THEN Out("Err", lock, view, status, slock)
             ELSE LET held == [lock EXCEPT !["V"] = SetWriter(@)]
                      v == ViewSetInputStorage(held, view, input)
                  IN  IF v.res = "Ok"
                      THEN Out("Ok", [v.lock EXCEPT !["V"] = DropWriter(@)],
                               v.view, status, slock)
                      ELSE Out("Panic", [v.lock EXCEPT !["V"] = PoisonWriter(@)],
                               v.view, status, slock)

\* ViewStorageController::set_input
ControllerSetInput(input, K, I) ==
    IF ~CanTryRead(slock) THEN Out("Err", lock, view, status, slock)
    ELSE IF status # "None" THEN Out("Err", lock, view, status, slock)
    ELSE LET c == CastToDyn(lock, "V", "ViewStorageSetup", K, I)
         IN  IF c # "Ok" THEN Out(c, lock, view, status, slock)
             ELSE IF ~CanTryWrite(lock["V"])
             THEN Out("Err", lock, view, status, slock)
             ELSE LET held == [lock EXCEPT !["V"] = SetWriter(@)]
                      v == ViewSetInputStorage(held, view, input)
                  IN  IF v.res = "Ok"
                      THEN Out("Ok", [v.lock EXCEPT !["V"] = DropWriter(@)],
                               v.view, status, slock)
                      ELSE Out("Panic", [v.lock EXCEPT !["V"] = PoisonWriter(@)],
                               v.view, status, slock)

\* fault injection: create_*_view without the "status must be None" check
ControllerCreateViewNoStatusCheck(mode, keys, K, I) ==
    IF ~CanTryWrite(slock) THEN Out("Err", lock, view, status, slock)
    ELSE LET c == CastToDyn(lock, "V", "ViewStorageSetup", K, I)
         IN  IF c = "Panic"
             THEN Out("Panic", lock, view, status, PoisonWriter(slock))
             ELSE IF c = "Err" THEN Out("Err", lock, view, status, slock)
             ELSE IF ~CanTryWrite(lock["V"])
             THEN Out("Err", lock, view, status, slock)
             ELSE LET v == ViewCreateView(mode, lock, view, keys)
                  IN  CASE v.res = "Ok" ->
                             Out("Ok", v.lock, v.view,
                                 IF mode = "create_read_view" THEN "Readable"
                                 ELSE "Writable", slock)
                        [] v.res = "Err" -> Out("Err", lock, view, status, slock)
                        [] v.res = "Block" ->
                             Out("Block", [lock EXCEPT !["V"] = SetWriter(@)],
                                 view, status, SetWriter(slock))

\* fault injection: the status is written as soon as the check of the old
\* status has passed, before the cast and the call on the backend
ControllerCreateViewStatusFirst(mode, keys, K, I) ==
    LET early == IF mode = "create_read_view" THEN "Readable" ELSE "Writable"
    IN  IF ~CanTryWrite(slock) THEN Out("Err", lock, view, status, slock)
        ELSE IF status # "None" THEN Out("Err", lock, view, status, slock)
        ELSE LET c == CastToDyn(lock, "V", "ViewStorageSetup", K, I)
             IN  IF c = "Panic"
                 THEN Out("Panic", lock, view, early, PoisonWriter(slock))
                 ELSE IF c = "Err" THEN Out("Err", lock, view, early, slock)
                 ELSE IF ~CanTryWrite(lock["V"])
                 THEN Out("Err", lock, view, early, slock)
                 ELSE LET v == ViewCreateView(mode, lock, view, keys)
                      IN  CASE v.res = "Ok" ->
                                 Out("Ok", v.lock, v.view, early, slock)
                            [] v.res = "Err" ->
                                 Out("Err", lock, view, early, slock)
                            [] v.res = "Block" ->
                                 Out("Block", [lock EXCEPT !["V"] = SetWriter(@)],
                                     view, early, SetWriter(slock))

\* ViewStorageController::create_read_view / create_write_view
\* ("Block": the call waits inside take() holding the status cell's write
\*  guard and the view storage's write guard)
ControllerCreateView(mode, keys, K, I) ==
    IF ~CanTryWrite(slock) THEN Out("Err", lock, view, status, slock)
    ELSE IF status # "None" THEN Out("Err", lock, view, status, slock)
    ELSE LET c == CastToDyn(lock, "V", "ViewStorageSetup", K, I)
         IN  IF c = "Panic"
             THEN Out("Panic", lock, view, status, PoisonWriter(slock))
             ELSE IF c = "Err" THEN Out("Err", lock, view, status, slock)
             ELSE IF ~CanTryWrite(lock["V"])
             THEN Out("Err", lock, view, status, slock)
             ELSE LET v == ViewCreateView(mode, lock, view, keys)
                  IN  CASE v.res = "Ok" ->
                             Out("Ok", v.lock, v.view,
                                 IF mode = "create_read_view" THEN "Readable"
                                 ELSE "Writable", slock)
                        [] v.res = "Err" -> Out("Err", lock, view, status, slock)
                        [] v.res = "Block" ->
                             Out("Block", [lock EXCEPT !["V"] = SetWriter(@)],
                                 view, status, SetWriter(slock))

----------------------------------------------------------------------------
(* Construction *)

TrueKey == "usize"
TrueItem == "i32"

\* StorageHandle::new
NewHandle(a) ==
    [base_storage |-> a, storage |-> a, cap |-> "Storage", vsc |-> "none",
     key_type_id |-> TrueKey, item_type_id |-> TrueItem, guard |-> "none"]

\* StorageHandle::new_with_view_controller
NewHandleWithViewController(a) ==
    [base_storage |-> a, storage |-> a, cap |-> "Storage", vsc |-> a,
     key_type_id |-> TrueKey, item_type_id |-> TrueItem, guard |-> "none"]

\* StorageHandle::new(storage, base_storage, key_type_id, item_type_id): the
\* four arguments are stored as the caller passes them
StorageHandleNew(st, b, K, I) ==
    [base_storage |-> b, storage |-> st, cap |-> "Storage", vsc |-> "none",
     key_type_id |-> K, item_type_id |-> I, guard |-> "none"]

\* StorageHandle::new_with_view_controller(storage, base_storage, key_type_id,
\* item_type_id): the controller is built over base_storage
StorageHandleNewWithViewController(st, b, K, I) ==
    [base_storage |-> b, storage |-> st, cap |-> "Storage", vsc |-> b,
     key_type_id |-> K, item_type_id |-> I, guard |-> "none"]

\* builder(storage)[.add_view_controller()].build(): the tags are
\* S::key_type_id() and S::item_type_id() of the concrete backend
StorageHandleBuilderBuild(a, with_controller) ==
    [base_storage |-> a, storage |-> a, cap |-> "Storage",
     vsc |-> IF with_controller THEN a ELSE "none",
     key_type_id |-> kind[a].key, item_type_id |-> kind[a].item,
     guard |-> "none"]

Did(op, res) == [op |-> op, res |-> res]

\* the Arcs the first n handles of sl own on allocation a
RECURSIVE SumRefs(_, _, _)
SumRefs(sl, a, n) ==
    IF n = 0 THEN 0 ELSE Refs(sl[n], a) + SumRefs(sl, a, n - 1)

\* the strong counts once the handles sl are constructed: an allocation
\* held by no handle has not been created
InitRc(sl) == [a \in Allocs |-> SumRefs(sl, a, MaxHandles)]

\* a VecStorage source "A" and a KeyItemViewStorage<VecStorage> "V" built
\* with new_with_view_controller, one handle each
Init ==
    /\ kind = [a \in Allocs |-> IF a = "A" THEN Plain("Vec", TrueKey, TrueItem)
                                 ELSE ViewOf("Vec", TrueKey, TrueItem)]
    /\ slots = [s \in Slots |-> CASE s = 1 -> NewHandleWithViewController("V")
                                  [] s = 2 -> NewHandle("A")
                                  [] OTHER -> NoHandle]
    /\ rc = InitRc(slots)
    /\ lock = [a \in Allocs |-> FreshLock]
    /\ status = "None"
    /\ slock = FreshLock
    /\ view = FreshView
    /\ data = [k \in Keys |-> k]
    /\ pending = NoPending
    /\ last = Did("init", "Ok")

\* one freshly built backend of any of the eight concrete kinds, held by a
\* single handle: a plain backend through StorageHandle::new, a view through
\* StorageHandle::new_with_view_controller
InitCast ==
    /\ kind \in {[a \in Allocs |-> IF a = "A" THEN Plain(k, TrueKey, TrueItem)
                                   ELSE ViewOf(k, TrueKey, TrueItem)]
                    : k \in BaseKinds}
    /\ slots \in {[s \in Slots |-> IF s = 1 THEN h ELSE NoHandle]
                    : h \in {NewHandle("A"), NewHandleWithViewController("V")}}
    /\ rc = InitRc(slots)
    /\ lock = [a \in Allocs |-> FreshLock]
    /\ status = "None"
    /\ slock = FreshLock
    /\ view = FreshView
    /\ data = [k \in Keys |-> k]
    /\ pending = NoPending
    /\ last = Did("init", "Ok")

\* one handle made by any of the public constructors over a VecStorage "A"
\* and a KeyItemViewStorage<VecStorage> "V", with the arguments a caller can
\* pass
InitNew ==
    /\ kind = [a \in Allocs |-> IF a = "A" THEN Plain("Vec", TrueKey, TrueItem)
                                 ELSE ViewOf("Vec", TrueKey, TrueItem)]
    /\ slots \in {[s \in Slots |-> IF s = 1 THEN h ELSE NoHandle] :
                    h \in {StorageHandleNew(st, b, K, I) :
                              st \in Allocs, b \in Allocs, K \in KeyTypes,
                              I \in ItemTypes}
                          \cup {StorageHandleNewWithViewController(st, b, K, I) :
                                   st \in Allocs, b \in Allocs, K \in KeyTypes,
                                   I \in ItemTypes}
                          \cup {StorageHandleBuilderBuild(a, c) :
                                   a \in Allocs, c \in BOOLEAN}}
    /\ rc = InitRc(slots)
    /\ lock = [a \in Allocs |-> FreshLock]
    /\ status = "None"
    /\ slock = FreshLock
    /\ view = FreshView
    /\ data = [k \in Keys |-> k]
    /\ pending = NoPending
    /\ last = Did("init", "Ok")

\* an active view: the handles of Init, the source attached by set_input
\* with a clone of its handle, and a read or a write view created over any
\* selection list, the source holding any items
InitView ==
    /\ kind = [a \in Allocs |-> IF a = "A" THEN Plain("Vec", TrueKey, TrueItem)
                                 ELSE ViewOf("Vec", TrueKey, TrueItem)]
    /\ slots = [s \in Slots |-> CASE s = 1 -> NewHandleWithViewController("V")
                                  [] s = 2 -> NewHandle("A")
                                  [] OTHER -> NoHandle]
    /\ \E m \in {"create_read_view", "create_write_view"}, S \in Selections :
          /\ view = [view_keys |-> S, input_storage |-> "A",
                     read_guard |-> m = "create_read_view",
                     write_guard |-> m = "create_write_view"]
          /\ lock = [a \in Allocs |->
                        IF a = "V" THEN FreshLock
                        ELSE IF m = "create_read_view" THEN AddReader(FreshLock)
                        ELSE SetWriter(FreshLock)]
          /\ status = IF m = "create_read_view" THEN "Readable" ELSE "Writable"
          /\ last = Did(m, "Ok")
    /\ rc = [a \in Allocs |-> InitRc(slots)[a] + ViewRefs(view, a)]
    /\ slock = FreshLock
    /\ data \in [Keys -> Items]
    /\ pending = NoPending

\* a source "A" of any plain kind and a KeyItemViewStorage<VecStorage> "V"
\* built with new_with_view_controller, one handle each: the source handed
\* to set_input may or may not be the VecStorage the view is declared over
InitInput ==
    /\ kind \in {[a \in Allocs |-> IF a = "A" THEN Plain(k, TrueKey, TrueItem)
                                   ELSE ViewOf("Vec", TrueKey, TrueItem)]
                    : k \in BaseKinds}
    /\ slots = [s \in Slots |-> CASE s = 1 -> NewHandleWithViewController("V")
                                  [] s = 2 -> NewHandle("A")
                                  [] OTHER -> NoHandle]
    /\ rc = InitRc(slots)
    /\ lock = [a \in Allocs |-> FreshLock]
    /\ status = "None"
    /\ slock = FreshLock
    /\ view = FreshView
    /\ data = [k \in Keys |-> k]
    /\ pending = NoPending
    /\ last = Did("init", "Ok")

\* KeyTrait::supports_index: impl_key_trait!([u8, u16, usize], true), false
\* for i8, i16, i32, i64, i128, u32, u64, u128
SupportsIndex(K) == K \in {"u8", "u16", "usize"}

\* the public ways of constructing a backend of each kind: the inherent
\* constructors and the derived Default
Constructors(over) ==
    IF over = "Vec" THEN {"new", "new_from_iter", "default"}
    ELSE {"new", "default"}

\* construction of a backend of type kd: VecStorage::new / new_from_iter,
\* SparseSetVecStorage::new and ValStorage::new start with
\* assert!(Key::supports_index()); HashMapStorage::new and every derived
\* Default do not
StorageConstruct(kd, ctor) ==
    IF ctor # "default" /\ kd.over \in {"Vec", "Sparse", "Val"}
                        /\ ~SupportsIndex(kd.key)
    THEN "Panic" ELSE "Ok"

\* nothing is constructed yet; kind["A"] is the backend type the caller is
\* about to construct, of any kind and with any key type
InitCtor ==
    /\ kind \in {[a \in Allocs |-> IF a = "A" THEN Plain(k, K, TrueItem)
                                   ELSE ViewOf(k, K, TrueItem)]
                    : k \in BaseKinds, K \in CtorKeyTypes}
    /\ slots = [s \in Slots |-> NoHandle]
    /\ rc = [a \in Allocs |-> 0]
    /\ lock = [a \in Allocs |-> FreshLock]
    /\ status = "None"
    /\ slock = FreshLock
    /\ view = FreshView
    /\ data = [k \in Keys |-> k]
    /\ pending = NoPending
    /\ last = Did("init", "Ok")

\* a VecStorage<usize, i32> built with new_from_iter from any items, held by
\* one handle
InitVec ==
    /\ kind = [a \in Allocs |-> IF a = "A" THEN Plain("Vec", TrueKey, TrueItem)
                                 ELSE ViewOf("Vec", TrueKey, TrueItem)]
    /\ slots = [s \in Slots |-> IF s = 1 THEN NewHandle("A") ELSE NoHandle]
    /\ rc = InitRc(slots)
    /\ lock = [a \in Allocs |-> FreshLock]
    /\ status = "None"
    /\ slock = FreshLock
    /\ view = FreshView
    /\ data \in {VecOf(seq) : seq \in UNION {[1..n -> Items] : n \in 0..MaxVecLen}}
    /\ pending = NoPending
    /\ last = Did("new_from_iter", "Ok")

\* a view handle cast to the concrete KeyItemViewStorage with
\* cast_to_sized_storage, a handle of the source, and a read or a write view
\* created through the controller over any selection
InitWrite ==
    /\ kind = [a \in Allocs |-> IF a = "A" THEN Plain("Vec", TrueKey, TrueItem)
                                 ELSE ViewOf("Vec", TrueKey, TrueItem)]
    /\ slots = [s \in Slots |->
                  CASE s = 1 -> CastHandle(NewHandleWithViewController("V"),
                                           "Sized")
                    [] s = 2 -> NewHandle("A")
                    [] OTHER -> NoHandle]
    /\ \E m \in {"create_read_view", "create_write_view"}, S \in Selections :
          /\ view = [view_keys |-> S, input_storage |-> "A",
                     read_guard |-> m = "create_read_view",
                     write_guard |-> m = "create_write_view"]
          /\ lock = [a \in Allocs |->
                        IF a = "V" THEN FreshLock
                        ELSE IF m = "create_read_view" THEN AddReader(FreshLock)
                        ELSE SetWriter(FreshLock)]
          /\ status = IF m = "create_read_view" THEN "Readable" ELSE "Writable"
          /\ last = Did(m, "Ok")
    /\ rc = [a \in Allocs |-> InitRc(slots)[a] + ViewRefs(view, a)]
    /\ slock = FreshLock
    /\ data \in [Keys -> Items]
    /\ pending = NoPending

\* two clones of a handle built with new_with_view_controller, each used by
\* a thread of its own; the view is freshly constructed, has its input
\* attached, or holds a read or a write view over any selection
InitConc ==
    /\ kind = [a \in Allocs |-> IF a = "A" THEN Plain("Vec", TrueKey, TrueItem)
                                 ELSE ViewOf("Vec", TrueKey, TrueItem)]
    /\ slots = [s \in Slots |-> NewHandleWithViewController("V")]
    /\ \E m \in {"new", "set_input", "create_read_view", "create_write_view"},
          S \in Selections :
          /\ view = IF m = "new" THEN FreshView
                    ELSE [view_keys |-> IF m = "set_input" THEN <<>> ELSE S,
                          input_storage |-> "A",
                          read_guard |-> m = "create_read_view",
                          write_guard |-> m = "create_write_view"]
          /\ lock = [a \in Allocs |->
                        IF a = "V" \/ m \in {"new", "set_input"} THEN FreshLock
                        ELSE IF m = "create_read_view" THEN AddReader(FreshLock)
                        ELSE SetWriter(FreshLock)]
          /\ status = CASE m = "create_read_view" -> "Readable"
                         [] m = "create_write_view" -> "Writable"
                         [] OTHER -> "None"
          /\ last = Did(m, "Ok")
    /\ rc = [a \in Allocs |-> InitRc(slots)[a] + ViewRefs(view, a)]
    /\ slock = FreshLock
    /\ data = [k \in Keys |-> k]
    /\ pending = NoPending

\* the key type of the backends of SpecKey
SignedKey == "i32"

\* backends with a signed key type, built with Default::default() and held
\* by handles without a view controller: a VecStorage or a HashMapStorage
\* source holding any items, and a view over it -- freshly constructed, with
\* its input attached and no view created, or with a read or a write view
\* over any selection
InitKey ==
    /\ kind \in {[a \in Allocs |-> IF a = "A" THEN Plain(k, SignedKey, TrueItem)
                                   ELSE ViewOf(k, SignedKey, TrueItem)]
                    : k \in {"Vec", "HashMap"}}
    /\ slots = [s \in Slots |-> CASE s = 1 -> StorageHandleBuilderBuild("V", FALSE)
                                  [] s = 2 -> StorageHandleBuilderBuild("A", FALSE)
                                  [] OTHER -> NoHandle]
    /\ \E m \in {"new", "set_input_storage", "create_read_view",
                  "create_write_view"},
          S \in SignedSelections :
          /\ view = IF m = "new" THEN FreshView
                    ELSE [view_keys |-> IF m = "set_input_storage" THEN <<>>
                                        ELSE S,
                          input_storage |-> "A",
                          read_guard |-> m = "create_read_view",
                          write_guard |-> m = "create_write_view"]
          /\ lock = [a \in Allocs |->
                        IF a = "V" \/ m \in {"new", "set_input_storage"}
                        THEN FreshLock
                        ELSE IF m = "create_read_view" THEN AddReader(FreshLock)
                        ELSE SetWriter(FreshLock)]
          /\ last = Did(IF m = "new" THEN m ELSE "guard." \o m, "Ok")
    /\ status = "None"
    /\ rc = [a \in Allocs |-> InitRc(slots)[a] + ViewRefs(view, a)]
    /\ slock = FreshLock
    /\ data \in [Keys -> Items]
    /\ pending = NoPending

----------------------------------------------------------------------------
(* Ownership: the view backend is destroyed with its last handle *)

ViewAlive(sl) ==
    \E s \in Slots :
        sl[s].storage = "V" \/ sl[s].base_storage = "V" \/ sl[s].vsc = "V"

\* dropping KeyItemViewStorage drops its retained guards
SettleLock(sl, lk, vw) ==
    IF ViewAlive(sl) THEN lk
    ELSE [ReleaseGuards(lk, vw) EXCEPT !["V"] = FreshLock]

SettleView(sl, vw) == IF ViewAlive(sl) THEN vw ELSE FreshView
SettleStatus(sl, st) == IF ViewAlive(sl) THEN st ELSE "None"
SettleSlock(sl, l) == IF ViewAlive(sl) THEN l ELSE FreshLock

\* the view backend is dropped when its strong count reaches zero: the Arcs
\* in its fields vw are dropped with it
SettleRc(c, vw) ==
    IF c["V"] > 0 THEN c
    ELSE [a \in Allocs |-> c[a] - ViewRefs(vw, a)]

\* a handle that can be moved or dropped: no guard borrows it and no call
\* is running on it
Idle(s) ==
    /\ Live(slots[s])
    /\ slots[s].guard = "none"
    /\ pending.slot # s

Leave(sl, lk, vw, st, l) ==
    /\ slots' = sl
    /\ lock' = SettleLock(sl, lk, vw)
    /\ view' = SettleView(sl, vw)
    /\ status' = SettleStatus(sl, st)
    /\ slock' = SettleSlock(sl, l)

----------------------------------------------------------------------------
(* Handle operations *)

Clone(s, t) ==
    /\ Live(slots[s])
    /\ ~Live(slots[t])
    /\ slots' = [slots EXCEPT ![t] = CloneHandle(slots[s])]
    /\ rc' = CloneHandleRc(rc, slots[s])
    /\ last' = Did("clone", "Ok")
    /\ UNCHANGED <<kind, lock, status, slock, view, data, pending>>

\* drop(handle)
DropHandle(s) ==
    /\ Idle(s)
    /\ Leave([slots EXCEPT ![s] = NoHandle], lock, view, status, slock)
    /\ rc' = SettleRc(DropHandleRc(rc, slots[s]), view)
    /\ last' = Did("drop", "Ok")
    /\ UNCHANGED <<kind, data, pending>>

\* handle.cast_to_key_storage / cast_to_getitem_storage /
\* cast_to_keyitemview_storage / cast_to_mut_getitem_storage /
\* cast_to_slice_storage ::<K, I>(): consumes the handle
CastToDynTrait(s, trait, K, I) ==
    /\ Idle(s)
    /\ LET r == CastStoragePtrToDyn(slots[s], trait, K, I)
           h == IF r = "Ok" THEN CastHandle(slots[s], trait) ELSE NoHandle
       IN  /\ Leave([slots EXCEPT ![s] = h], lock, view, status, slock)
           /\ last' = Did("cast_to_dyn", r)
    /\ rc' = SettleRc(CastStoragePtrToDynRc(rc, slots[s], trait, K, I), view)
    /\ UNCHANGED <<kind, data, pending>>

\* handle.cast_to_sized_storage::<target>(): consumes the handle
CastToSized(s, target) ==
    /\ Idle(s)
    /\ LET r == CastToSizedStorage(slots[s], target)
           h == IF r = "Ok" THEN CastHandle(slots[s], "Sized") ELSE NoHandle
       IN  /\ Leave([slots EXCEPT ![s] = h], lock, view, status, slock)
           /\ last' = Did("cast_to_sized_storage", r)
    /\ rc' = SettleRc(CastToSizedStorageRc(rc, slots[s], target), view)
    /\ UNCHANGED <<kind, data, pending>>

\* casting::cast_to_dyn_*::<S, K, I>(arw) on a clone of the pointer the
\* handle in slot s was built from; the returned pointer is dropped
CastArw(s, trait, K, I) ==
    /\ Live(slots[s])
    /\ LET a == slots[s].storage
           r == CastToDyn(lock, a, trait, K, I)
           c == CastToDynRc(ArcClone(rc, a), lock, a, trait, K, I)
       IN  /\ last' = Did("casting", r)
           /\ rc' = IF r = "Ok" THEN ArcDrop(c, a) ELSE c
    /\ UNCHANGED <<kind, slots, lock, status, slock, view, data, pending>>

\* storage_ptr_into_base(handle): consumes the handle
IntoBase(s) ==
    /\ Idle(s)
    /\ Leave([slots EXCEPT ![s] = StoragePtrIntoBase(slots[s])],
             lock, view, status, slock)
    /\ rc' = SettleRc(StoragePtrIntoBaseRc(rc, slots[s]), view)
    /\ last' = Did("storage_ptr_into_base", "Ok")
    /\ UNCHANGED <<kind, data, pending>>

\* let guard = handle.try_read()
TryRead(s) ==
    /\ Idle(s)
    /\ LET r == HandleTryRead(slots[s])
           a == slots[s].storage
       IN  /\ last' = Did("try_read", r)
           /\ IF r = "Ok"
              THEN /\ slots' = [slots EXCEPT ![s].guard = "read"]
                   /\ lock' = [lock EXCEPT ![a] = AddReader(@)]
              ELSE UNCHANGED <<slots, lock>>
    /\ UNCHANGED <<kind, rc, status, slock, view, data, pending>>

\* let guard = handle.try_write()
TryWrite(s) ==
    /\ Idle(s)
    /\ LET r == HandleTryWrite(slots[s])
           a == slots[s].storage
       IN  /\ last' = Did("try_write", r)
           /\ IF r = "Ok"
              THEN /\ slots' = [slots EXCEPT ![s].guard = "write"]
                   /\ lock' = [lock EXCEPT ![a] = SetWriter(@)]
              ELSE UNCHANGED <<slots, lock>>
    /\ UNCHANGED <<kind, rc, status, slock, view, data, pending>>

\* drop(guard)
DropGuard(s) ==
    /\ Live(slots[s])
    /\ slots[s].guard # "none"
    /\ pending.slot # s
    /\ LET a == slots[s].storage
       IN  lock' = [lock EXCEPT ![a] =
                      IF slots[s].guard = "read" THEN DropReader(@)
                      ELSE DropWriter(@)]
    /\ slots' = [slots EXCEPT ![s].guard = "none"]
    /\ last' = Did("drop_guard", "Ok")
    /\ UNCHANGED <<kind, rc, status, slock, view, data, pending>>

\* *guard.get_mut(k).unwrap() = v through a write guard on the source
WriteItem(s, k, v) ==
    /\ Live(slots[s])
    /\ slots[s].storage = "A"
    /\ slots[s].guard = "write"
    /\ slots[s].cap \in {"MutKeyItemStorage", "Sized"}
    /\ data' = [data EXCEPT ![k] = v]
    /\ last' = Did("get_mut", "Ok")
    /\ UNCHANGED <<kind, rc, slots, lock, status, slock, view, pending>>

----------------------------------------------------------------------------
(* View controller operations, through handle.view_storage_controller_mut() *)

HasController(s) == Idle(s) /\ slots[s].vsc # "none"

\* controller.clear_view::<K, I>()
ClearView(s, K, I) ==
    /\ HasController(s)
    /\ LET o == ControllerClearView(K, I)
       IN  /\ lock' = o.lock
           /\ view' = o.view
           /\ status' = o.status
           /\ slock' = o.slock
           /\ last' = Did("clear_view", o.res)
           /\ rc' = ViewCallRc(rc, view, pending, o.view, pending)
    /\ UNCHANGED <<kind, slots, data, pending>>

\* controller.set_input::<K, I>(input): the handle passed by value is the
\* one in slot t (moved = TRUE) or a clone of it made for the call
SetInput(s, t, moved, K, I) ==
    /\ HasController(s)
    /\ t # s
    /\ slots[t].cap = "Storage"
    /\ IF moved THEN Idle(t) ELSE Live(slots[t])
    /\ LET o == ControllerSetInput(slots[t].base_storage, K, I)
           sl == IF moved THEN [slots EXCEPT ![t] = NoHandle] ELSE slots
           c == IF moved THEN DropHandleRc(rc, slots[t]) ELSE rc
       IN  /\ Leave(sl, o.lock, o.view, o.status, o.slock)
           /\ rc' = SettleRc(ViewCallRc(c, view, pending, o.view, pending),
                             o.view)
           /\ last' = Did("set_input", o.res)
    /\ UNCHANGED <<kind, data, pending>>

\* controller.create_read_view::<K, I>(keys) / create_write_view::<K, I>(keys)
CreateView(s, mode, keys, K, I) ==
    /\ HasController(s)
    /\ LET o == ControllerCreateView(mode, keys, K, I)
       IN  /\ lock' = o.lock
           /\ view' = o.view
           /\ status' = o.status
           /\ slock' = o.slock
           /\ last' = Did(mode, o.res)
           /\ pending' = IF o.res = "Block"
                         THEN [op |-> mode, via |-> "controller", slot |-> s,
                               keys |-> keys]
                         ELSE pending
           /\ rc' = ViewCallRc(rc, view, pending, view', pending')
    /\ UNCHANGED <<kind, slots, data>>

\* controller.status()
Status(s) ==
    /\ Live(slots[s])
    /\ slots[s].vsc # "none"
    /\ last' = Did("status", ControllerStatus(slock, status))
    /\ UNCHANGED <<kind, rc, slots, lock, status, slock, view, data, pending>>

----------------------------------------------------------------------------
(* ViewStorageSetup called on the backend through a write guard obtained   *)
(* from a handle typed at dyn ViewStorageSetup or at the concrete view     *)

HoldsViewSetup(s) ==
    /\ Live(slots[s])
    /\ slots[s].storage = "V"
    /\ slots[s].guard = "write"
    /\ slots[s].cap \in {"ViewStorageSetup", "Sized"}
    /\ pending.slot # s

\* guard.clear_view()
GuardClearView(s) ==
    /\ HoldsViewSetup(s)
    /\ LET o == ViewClearView(lock, view)
       IN  /\ lock' = o.lock
           /\ view' = o.view
    /\ rc' = ViewCallRc(rc, view, pending, view', pending)
    /\ last' = Did("guard.clear_view", "Ok")
    /\ UNCHANGED <<kind, slots, status, slock, data, pending>>

\* guard.set_input_storage(arw): a panic unwinds through the caller's guard
GuardSetInputStorage(s, a) ==
    /\ HoldsViewSetup(s)
    /\ LET o == ViewSetInputStorage(lock, view, a)
       IN  /\ view' = o.view
           /\ last' = Did("guard.set_input_storage", o.res)
           /\ IF o.res = "Ok"
              THEN /\ lock' = o.lock
                   /\ UNCHANGED slots
              ELSE /\ lock' = [o.lock EXCEPT !["V"] = PoisonWriter(@)]
                   /\ slots' = [slots EXCEPT ![s].guard = "none"]
    /\ rc' = ViewCallRc(rc, view, pending, view', pending)
    /\ UNCHANGED <<kind, status, slock, data, pending>>

\* guard.create_read_view(keys) / guard.create_write_view(keys)
GuardCreateView(s, mode, keys) ==
    /\ HoldsViewSetup(s)
    /\ LET o == ViewCreateView(mode, lock, view, keys)
       IN  /\ lock' = o.lock
           /\ view' = o.view
           /\ last' = Did("guard." \o mode, o.res)
           /\ pending' = IF o.res = "Block"
                         THEN [op |-> mode, via |-> "guard", slot |-> s,
                               keys |-> keys]
                         ELSE pending
           /\ rc' = ViewCallRc(rc, view, pending, view', pending')
    /\ UNCHANGED <<kind, slots, status, slock, data>>

----------------------------------------------------------------------------
(* A call waiting in ArcRwLock*Guardian::take resumes once the source's    *)
(* lock can be taken in the needed mode.                                   *)

Resume ==
    /\ pending.op # "none"
    /\ LET o == ViewCreateView(pending.op, lock, view, pending.keys)
       IN  /\ o.res # "Block"
           /\ IF pending.via = "controller"
              THEN /\ lock' = [(IF o.res = "Ok" THEN o.lock ELSE lock)
                                  EXCEPT !["V"] = DropWriter(@)]
                   /\ view' = IF o.res = "Ok" THEN o.view ELSE view
                   /\ status' = IF o.res # "Ok" THEN status
                                ELSE IF pending.op = "create_read_view"
                                THEN "Readable" ELSE "Writable"
                   /\ slock' = DropWriter(slock)
                   /\ last' = Did(pending.op, o.res)
              ELSE /\ lock' = o.lock
                   /\ view' = o.view
                   /\ last' = Did("guard." \o pending.op, o.res)
                   /\ UNCHANGED <<status, slock>>
    /\ pending' = NoPending
    /\ rc' = ViewCallRc(rc, view, pending, view', pending')
    /\ UNCHANGED <<kind, slots, data>>

----------------------------------------------------------------------------
(* Threads: a call that another thread's step can fall into the middle of  *)

\* a thread enters controller.status(), or the gate of try_read / try_write:
\* self.status.try_read() succeeded and the read guard is alive
StatusEnter(s) ==
    /\ Live(slots[s])
    /\ slots[s].vsc # "none"
    /\ CanTryRead(slock)
    /\ slock.readers < MaxStatusReaders
    /\ slock' = AddReader(slock)
    /\ last' = Did("status", "Running")
    /\ UNCHANGED <<kind, rc, slots, lock, status, view, data, pending>>

\* the thread leaves: the value is read and the read guard is dropped
StatusLeave ==
    /\ slock.readers > 0
    /\ slock' = DropReader(slock)
    /\ last' = Did("status", status)
    /\ UNCHANGED <<kind, rc, slots, lock, status, view, data, pending>>

\* a thread inside controller.create_read_view / create_write_view is
\* preempted just before the backend calls take(): it holds the write guard
\* of the status cell and the write guard of the view storage
CreateViewEnter(s, mode, keys, K, I) ==
    /\ HasController(s)
    /\ pending = NoPending
    /\ ControllerCreateView(mode, keys, K, I).res \in {"Ok", "Block"}
    /\ lock' = [lock EXCEPT !["V"] = SetWriter(@)]
    /\ slock' = SetWriter(slock)
    /\ pending' = [op |-> mode, via |-> "controller", slot |-> s, keys |-> keys]
    /\ rc' = ViewCallRc(rc, view, pending, view, pending')
    /\ last' = Did(mode, "Running")
    /\ UNCHANGED <<kind, slots, status, view, data>>

----------------------------------------------------------------------------
(* Lookups and writes on the view backend, through a guard on the view     *)
(* storage                                                                 *)

ViewActive == view.read_guard \/ view.write_guard

\* a guard on the view storage can be obtained: its lock is not poisoned
ViewReachable == ~lock["V"].poisoned

\* what a per-key lookup leaves in last: the key and the value returned, or
\* the key alone when the call panicked
Returned(op, key, r) == Did(op, <<key, r>>)
Unwound(op, key) == Did(op, <<key>>)

\* guard.get(key)
ViewGet(key) ==
    /\ ViewReachable
    /\ last' = IF ViewLookupPanics(view, view.read_guard \/ view.write_guard, key)
               THEN Unwound("view.get", key)
               ELSE Returned("view.get", key, KeyItemViewGet(view, data, key))
    /\ UNCHANGED <<kind, rc, slots, lock, status, slock, view, data, pending>>

\* guard.contains(key)
ViewContains(key) ==
    /\ ViewReachable
    /\ last' = IF ViewLookupPanics(view, view.read_guard, key)
               THEN Unwound("view.contains", key)
               ELSE Returned("view.contains", key,
                             KeyItemViewContains(view, data, key))
    /\ UNCHANGED <<kind, rc, slots, lock, status, slock, view, data, pending>>

\* guard.key_item_iter().collect()
ViewKeyItemIter ==
    /\ ViewReachable
    /\ ViewActive
    /\ last' = Did("view.key_item_iter", KeyItemViewIter(view, data))
    /\ UNCHANGED <<kind, rc, slots, lock, status, slock, view, data, pending>>

\* guard.item_iter().collect()
ViewItemIter ==
    /\ ViewReachable
    /\ ViewActive
    /\ last' = Did("view.item_iter", KeyItemViewItemIter(view, data))
    /\ UNCHANGED <<kind, rc, slots, lock, status, slock, view, data, pending>>

\* guard.keys_iter().collect()
ViewKeysIter ==
    /\ ViewReachable
    /\ ViewActive
    /\ last' = Did("view.keys_iter", KeyItemViewKeysIter(view))
    /\ UNCHANGED <<kind, rc, slots, lock, status, slock, view, data, pending>>

\* if let Some(item) = guard.get_mut(key) { *item = v }: a panic unwinds
\* through the write guard on the view storage and poisons its lock
ViewGetMut(key, v) ==
    /\ ViewReachable
    /\ IF ViewLookupPanics(view, view.write_guard, key)
       THEN /\ last' = Unwound("view.get_mut", key)
            /\ lock' = [lock EXCEPT !["V"] = PoisonWriter(@)]
            /\ UNCHANGED data
       ELSE LET r == KeyItemViewGetMut(view, data, key)
            IN  /\ data' = IF r = None THEN data ELSE [data EXCEPT ![r[1]] = v]
                /\ last' = Returned("view.get_mut", key, r)
                /\ UNCHANGED lock
    /\ UNCHANGED <<kind, rc, slots, status, slock, view, pending>>

\* guard.clear_view() through a write guard on the view storage
ViewClear ==
    /\ ViewReachable
    /\ LET o == ViewClearView(lock, view)
       IN  /\ lock' = o.lock
           /\ view' = o.view
    /\ rc' = ViewCallRc(rc, view, pending, view', pending)
    /\ last' = Did("guard.clear_view", "Ok")
    /\ UNCHANGED <<kind, slots, status, slock, data, pending>>

\* the handle in slot s holds a write guard on the view storage and is typed
\* at dyn MutKeyItemStorage or at the concrete view
HoldsViewMut(s) ==
    /\ Live(slots[s])
    /\ slots[s].storage = "V"
    /\ slots[s].guard = "write"
    /\ slots[s].cap \in {"MutKeyItemStorage", "Sized"}
    /\ pending.slot # s

\* if let Some(item) = guard.get_mut(key) { *item = v } through the write
\* guard of the handle in slot s
GuardGetMut(s, key, v) ==
    /\ HoldsViewMut(s)
    /\ LET r == KeyItemViewGetMut(view, data, key)
       IN  /\ data' = IF r = None THEN data ELSE [data EXCEPT ![r[1]] = v]
           /\ last' = Returned("guard.get_mut", key, r)
    /\ UNCHANGED <<kind, rc, slots, lock, status, slock, view, pending>>

\* guard.insert(key, v) through the write guard of the handle in slot s: a
\* panic unwinds through that guard and poisons the lock of the view storage
GuardInsert(s, key, v) ==
    /\ HoldsViewMut(s)
    /\ LET o == KeyItemViewInsert(view, data, key, v)
       IN  /\ data' = o.data
           /\ IF o.res = "Ok"
              THEN /\ last' = Returned("guard.insert", key, "Ok")
                   /\ UNCHANGED <<lock, slots>>
              ELSE /\ last' = Unwound("guard.insert", key)
                   /\ lock' = [lock EXCEPT !["V"] = PoisonWriter(@)]
                   /\ slots' = [slots EXCEPT ![s].guard = "none"]
    /\ UNCHANGED <<kind, rc, status, slock, view, pending>>

\* the backend kind["A"] is constructed with ctor and, if that returns, put
\* behind a handle with StorageHandle::builder(storage).build()
Construct(ctor) ==
    /\ last = Did("init", "Ok")
    /\ ctor \in Constructors(kind["A"].over)
    /\ LET r == StorageConstruct(kind["A"], ctor)
           sl == IF r = "Ok"
                 THEN [slots EXCEPT ![1] = StorageHandleBuilderBuild("A", FALSE)]
                 ELSE slots
       IN  /\ slots' = sl
           /\ rc' = InitRc(sl)
           /\ last' = Did(ctor, r)
    /\ UNCHANGED <<kind, lock, status, slock, view, data, pending>>

\* guard.insert(key, item) through a write guard on the source
SourceInsert(key, item) ==
    /\ CanTryWrite(lock["A"])
    /\ IF key > VecLen(data) THEN key < MaxVecLen ELSE VecLen(data) < MaxVecLen
    /\ data' = VecStorageInsert(data, key, item)
    /\ last' = Did("insert", <<key, item>>)
    /\ UNCHANGED <<kind, rc, slots, lock, status, slock, view, pending>>

\* guard.get(key) through a read guard on the source
SourceGet(key) ==
    /\ CanTryRead(lock["A"])
    /\ last' = IF SourceLookupPanics(kind["A"], key) THEN Unwound("get", key)
               ELSE Returned("get", key, VecGet(data, key))
    /\ UNCHANGED <<kind, rc, slots, lock, status, slock, view, data, pending>>

\* guard.contains(key) through a read guard on the source
SourceContains(key) ==
    /\ CanTryRead(lock["A"])
    /\ last' = IF SourceLookupPanics(kind["A"], key)
               THEN Unwound("contains", key)
               ELSE Returned("contains", key, VecContains(data, key))
    /\ UNCHANGED <<kind, rc, slots, lock, status, slock, view, data, pending>>

\* guard.insert(key, v): a panic unwinds through the write guard on the view
\* storage and poisons its lock
ViewInsert(key, v) ==
    /\ ViewReachable
    /\ LET o == KeyItemViewInsert(view, data, key, v)
       IN  /\ data' = o.data
           /\ last' = Did("view.insert", <<key, o.res>>)
           /\ lock' = IF o.res = "Ok" THEN lock
                      ELSE [lock EXCEPT !["V"] = PoisonWriter(@)]
    /\ UNCHANGED <<kind, rc, slots, status, slock, view, pending>>

----------------------------------------------------------------------------

\* targets tried by cast_to_sized_storage: the concrete types that exist and
\* neighbours differing in the key type, the item type or the backend
SizedTargets ==
    {kind[a] : a \in Allocs}
        \cup {[kind["A"] EXCEPT !.key = "u8"], [kind["V"] EXCEPT !.item = "i64"]}
        \cup {Plain("HashMap", TrueKey, TrueItem), ViewOf("Val", TrueKey, TrueItem)}

ViewModes == {"create_read_view", "create_write_view"}

\* the view controller, the view backend and their locks on the source
Next ==
    \/ \E s, t \in Slots : Clone(s, t)
    \/ \E s \in Slots : DropHandle(s)
    \/ \E s \in Slots, a \in Allocs : CastToSized(s, kind[a])
    \/ \E s \in Slots : IntoBase(s)
    \/ \E s \in Slots : TryRead(s)
    \/ \E s \in Slots : TryWrite(s)
    \/ \E s \in Slots : DropGuard(s)
    \/ \E s \in Slots, K \in KeyTypes, I \in ItemTypes : ClearView(s, K, I)
    \/ \E s, t \in Slots, moved \in BOOLEAN, K \in KeyTypes, I \in ItemTypes :
           SetInput(s, t, moved, K, I)
    \/ \E s \in Slots, m \in ViewModes, ks \in KeySeqs, K \in KeyTypes,
          I \in ItemTypes : CreateView(s, m, ks, K, I)
    \/ \E s \in Slots : Status(s)
    \/ \E s \in Slots : GuardClearView(s)
    \/ \E s \in Slots, a \in Allocs : GuardSetInputStorage(s, a)
    \/ \E s \in Slots, m \in ViewModes, ks \in KeySeqs : GuardCreateView(s, m, ks)
    \/ Resume
    \/ \E key \in Keys : ViewGet(key)
    \/ \E key \in Keys : ViewContains(key)
    \/ ViewKeyItemIter

Spec == Init /\ [][Next]_vars

\* the controller of a view over a VecStorage, given sources of any kind
NextInput ==
    \/ \E s, t \in Slots : Clone(s, t)
    \/ \E s \in Slots : DropHandle(s)
    \/ \E s \in Slots : TryRead(s)
    \/ \E s \in Slots : TryWrite(s)
    \/ \E s \in Slots : DropGuard(s)
    \/ \E s \in Slots, K \in KeyTypes, I \in ItemTypes : ClearView(s, K, I)
    \/ \E s, t \in Slots, moved \in BOOLEAN, K \in KeyTypes, I \in ItemTypes :
           SetInput(s, t, moved, K, I)
    \/ \E s \in Slots, m \in ViewModes, ks \in KeySeqs, K \in KeyTypes,
          I \in ItemTypes : CreateView(s, m, ks, K, I)
    \/ \E s \in Slots : Status(s)
    \/ Resume

SpecInput == InitInput /\ [][NextInput]_vars

\* handles, casts and guards over one backend of any kind
NextCast ==
    \/ \E s, t \in Slots : Clone(s, t)
    \/ \E s \in Slots : DropHandle(s)
    \/ \E s \in Slots, tr \in DynTraits, K \in KeyTypes, I \in ItemTypes :
           CastToDynTrait(s, tr, K, I)
    \/ \E s \in Slots, ty \in SizedTargets : CastToSized(s, ty)
    \/ \E s \in Slots, tr \in CastTargets, K \in KeyTypes, I \in ItemTypes :
           CastArw(s, tr, K, I)
    \/ \E s \in Slots : IntoBase(s)
    \/ \E s \in Slots : TryRead(s)
    \/ \E s \in Slots : TryWrite(s)
    \/ \E s \in Slots : DropGuard(s)
    \/ \E s \in Slots, k \in Keys, v \in Items : WriteItem(s, k, v)

SpecCast == InitCast /\ [][NextCast]_vars

\* the interfaces cast to after construction
NewTraits == {"KeyStorage", "ViewStorageSetup"}

\* clones, casts and storage_ptr_into_base on a freshly constructed handle
NextNew ==
    \/ \E s, t \in Slots : Clone(s, t)
    \/ \E s \in Slots : DropHandle(s)
    \/ \E s \in Slots, tr \in NewTraits, K \in KeyTypes, I \in ItemTypes :
           CastToDynTrait(s, tr, K, I)
    \/ \E s \in Slots, ty \in SizedTargets : CastToSized(s, ty)
    \/ \E s \in Slots : IntoBase(s)

SpecNew == InitNew /\ [][NextNew]_vars

----------------------------------------------------------------------------
NextView ==
    \/ \E key \in ViewPositions : ViewGet(key)
    \/ \E key \in ViewPositions : ViewContains(key)
    \/ ViewKeyItemIter
    \/ \E key \in ViewPositions, v \in Items : ViewGetMut(key, v)
    \/ \E key \in ViewPositions, v \in Items : ViewInsert(key, v)
    \/ ViewKeysIter
    \/ ViewItemIter

SpecView == InitView /\ [][NextView]_vars

\* the view backend used through the write guard of a handle while a view
\* created through the controller is active
NextWrite ==
    \/ \E s \in Slots : TryRead(s)
    \/ \E s \in Slots : TryWrite(s)
    \/ \E s \in Slots : DropGuard(s)
    \/ \E s \in Slots : GuardClearView(s)
    \/ \E s \in Slots, m \in ViewModes, ks \in KeySeqs : GuardCreateView(s, m, ks)
    \/ Resume
    \/ \E s \in Slots, key \in ViewPositions, v \in Items : GuardGetMut(s, key, v)
    \/ \E s \in Slots, key \in ViewPositions, v \in Items : GuardInsert(s, key, v)

SpecWrite == InitWrite /\ [][NextWrite]_vars

\* construction of a backend, then what handles can do with it
NextCtor ==
    \/ \E ctor \in {"new", "new_from_iter", "default"} : Construct(ctor)
    \/ \E s, t \in Slots : Clone(s, t)
    \/ \E s \in Slots : DropHandle(s)
    \/ \E s \in Slots, tr \in DynTraits :
           CastToDynTrait(s, tr, kind["A"].key, kind["A"].item)
    \/ \E s \in Slots : TryRead(s)
    \/ \E s \in Slots : TryWrite(s)
    \/ \E s \in Slots : DropGuard(s)

SpecCtor == InitCtor /\ [][NextCtor]_vars

\* inserts and lookups on a VecStorage
NextVec ==
    \/ \E key \in 0..(MaxVecLen - 1), item \in Items : SourceInsert(key, item)
    \/ \E key \in 0..(MaxVecLen - 1) : SourceGet(key)
    \/ \E key \in 0..(MaxVecLen - 1) : SourceContains(key)

SpecVec == InitVec /\ [][NextVec]_vars

\* controller calls made by threads that hold clones of one handle
NextConc ==
    \/ \E s \in Slots : StatusEnter(s)
    \/ StatusLeave
    \/ \E s \in Slots : Status(s)
    \/ \E s \in Slots : ClearView(s, kind["V"].key, kind["V"].item)
    \/ \E s \in Slots, m \in ViewModes, ks \in KeySeqs :
           CreateView(s, m, ks, kind["V"].key, kind["V"].item)
    \/ \E s \in Slots, m \in ViewModes, ks \in KeySeqs :
           CreateViewEnter(s, m, ks, kind["V"].key, kind["V"].item)
    \/ Resume

SpecConc == InitConc /\ [][NextConc]_vars

\* per-key lookups with keys of a signed key type
NextKey ==
    \/ \E key \in SignedKeys : ViewGet(key)
    \/ \E key \in SignedKeys : ViewContains(key)
    \/ \E key \in SignedKeys, v \in Items : ViewGetMut(key, v)
    \/ \E key \in SignedKeys : SourceGet(key)
    \/ \E key \in SignedKeys : SourceContains(key)
    \/ ViewClear

SpecKey == InitKey /\ [][NextKey]_vars

----------------------------------------------------------------------------
(* Properties *)

\* the source allocation a view is attached to, and a direct handle on it
Source == view.input_storage
DirectHandle == NewHandle(Source)

\* some handle other than the one in slot s holds a write guard on allocation a
WriteGuardElsewhere(s, a) ==
    \E t \in Slots \ {s} : slots[t].storage = a /\ slots[t].guard = "write"

\* no handle holds a guard on allocation a
NoHandleGuard(a) ==
    \A t \in Slots : slots[t].storage = a => slots[t].guard = "none"

StatusOf(mode) == IF mode = "create_read_view" THEN "Readable" ELSE "Writable"

\* C1: every handle over a view backend built with a view controller --
\* clones, casts and storage_ptr_into_base results included -- is refused by
\* try_read and try_write while the controller status is None.
C1_GateOnEveryHandle ==
    \A s \in Slots :
        (/\ Live(slots[s])
         /\ slots[s].storage = "V"
         /\ ControllerStatus(slock, status) = "None")
            => /\ HandleTryRead(slots[s]) = "Err"
               /\ HandleTryWrite(slots[s]) = "Err"

\* C2 (one step): while the controller exists the status changes only
\* None -> Readable by a successful create_read_view, None -> Writable by a
\* successful create_write_view and Readable/Writable -> None by a successful
\* clear_view; each successful call makes its transition, and status()
\* returns the new value in the state right after it.
C2_Step ==
    /\ (ViewAlive(slots') /\ status' # status) =>
          /\ \/ /\ status = "None"
                /\ status' = "Readable"
                /\ last' = Did("create_read_view", "Ok")
             \/ /\ status = "None"
                /\ status' = "Writable"
                /\ last' = Did("create_write_view", "Ok")
             \/ /\ status \in {"Readable", "Writable"}
                /\ status' = "None"
                /\ last' = Did("clear_view", "Ok")
          /\ ControllerStatus(slock', status') = status'
    /\ \A s \in Slots, m \in ViewModes, ks \in KeySeqs, K \in KeyTypes,
          I \in ItemTypes :
          (last' = Did(m, "Ok") /\ CreateView(s, m, ks, K, I)) =>
              status = "None" /\ status' = StatusOf(m)
    /\ (pending.via = "controller" /\ Resume /\ last'.res = "Ok") =>
          status = "None" /\ status' = StatusOf(pending.op)
    /\ \A s \in Slots, K \in KeyTypes, I \in ItemTypes :
          (last' = Did("clear_view", "Ok") /\ ClearView(s, K, I)) =>
              /\ status' = "None"
              /\ ControllerStatus(slock', status') = "None"

\* C2: the status is None initially and then follows exactly the transition
\* relation None -> Readable (create_read_view), None -> Writable
\* (create_write_view), Readable/Writable -> None (clear_view), with no direct
\* Readable <-> Writable step, status() reporting each new value at once.
C2_StatusTransitions == (status = "None") /\ [][C2_Step]_vars

C2_Witness ==
    /\ last = Did("create_read_view", "Ok")
    /\ status = "Readable"
    /\ ControllerStatus(slock, status) = "Readable"

\* C3: create_read_view or create_write_view called through the controller
\* while the status is Readable or Writable returns an error and leaves the
\* status, the selected keys, the retained guards and every lock unchanged.
C3_CreateWhileActiveFails ==
    [][\A s \in Slots, m \in ViewModes, ks \in KeySeqs, K \in KeyTypes,
          I \in ItemTypes :
          (status \in {"Readable", "Writable"} /\ CreateView(s, m, ks, K, I)) =>
              /\ last'.res = "Err"
              /\ status' = status
              /\ view' = view
              /\ lock' = lock
              /\ pending' = pending]_vars

C3_Witness ==
    /\ last = Did("create_read_view", "Err")
    /\ status = "Writable"
    /\ view.write_guard
    /\ view.view_keys = <<1, 0>>

\* a read view is active: status Readable and the read guard retained
ReadViewActive == status = "Readable" /\ view.read_guard

\* while a read view is active a direct try_write on the source fails and a
\* direct try_read on it succeeds
C4_WhileActive ==
    ReadViewActive =>
        /\ HandleTryWrite(DirectHandle) = "Err"
        /\ HandleTryRead(DirectHandle) = "Ok"

\* C4 as stated: while a read view is active every direct try_write on the
\* source fails and a direct try_read succeeds; after clear_view a direct
\* try_write on the source succeeds.
C4_AsStated ==
    [][/\ C4_WhileActive
       /\ \A s \in Slots, K \in KeyTypes, I \in ItemTypes :
             (ReadViewActive /\ last' = Did("clear_view", "Ok")
                 /\ ClearView(s, K, I)) =>
                 CanTryWrite(lock'[Source])]_vars

\* C4 (amended): while a read view is active every direct try_write on the
\* source fails and a direct try_read succeeds; after a successful clear_view
\* a direct try_write on the source succeeds provided no guard handed out by
\* a direct try_read on the source is still outstanding.
C4_ReadViewLocksSource ==
    [][/\ C4_WhileActive
       /\ \A s \in Slots, K \in KeyTypes, I \in ItemTypes :
             (/\ ReadViewActive
              /\ NoHandleGuard(Source)
              /\ last' = Did("clear_view", "Ok")
              /\ ClearView(s, K, I)) =>
                 /\ CanTryWrite(lock'[Source])
                 /\ ~view'.read_guard]_vars

\* a direct try_write on the source has just failed against an active read
\* view: nothing else is locked, so only the view's guard can have refused it
C4_Witness ==
    /\ ReadViewActive
    /\ last = Did("try_write", "Err")
    /\ CanTryRead(slock)
    /\ CanTryWrite(lock["V"])
    /\ NoHandleGuard(Source)

\* C5: while the status is Writable the source is exclusively held: try_read
\* and try_write on the source fail through every handle on it.
C5_WritableHoldsSource ==
    status = "Writable" =>
        /\ HandleTryRead(NewHandle("A")) = "Err"
        /\ HandleTryWrite(NewHandle("A")) = "Err"
        /\ \A s \in Slots :
              (Live(slots[s]) /\ slots[s].storage = "A") =>
                  /\ HandleTryRead(slots[s]) = "Err"
                  /\ HandleTryWrite(slots[s]) = "Err"

\* C6: every lock acquisition is a non-blocking attempt: no call ever waits
\* for a lock, it returns at once.
C6_NoCallWaits == pending = NoPending /\ last.res # "Block"

\* what a cast to an unsatisfied target must do to the call by slot s
MismatchOutcome(s) ==
    /\ last'.res = "Err"
    /\ data' = data
    /\ lock' = lock
    /\ \A t \in Slots \ {s} : slots'[t] = slots[t]

\* C7: a cast to an interface or concrete type the backend does not satisfy
\* returns an error (never panics) and leaves the data, the lock state and
\* every other handle unchanged.
C7_MismatchedCastIsError ==
    [][\A s \in Slots :
          /\ \A tr \in DynTraits, K \in KeyTypes, I \in ItemTypes :
                (/\ CastToDynTrait(s, tr, K, I)
                 /\ kind[slots[s].storage] \notin Range(Candidates(tr, K, I)))
                    => MismatchOutcome(s)
          /\ \A ty \in SizedTargets :
                (CastToSized(s, ty) /\ ty # kind[slots[s].storage])
                    => MismatchOutcome(s)]_vars

\* C8: a cast, or a controller operation that casts internally, made while
\* another holder has a write guard on the same storage returns an error
\* value -- it neither panics nor waits -- and leaves the data unchanged.
C8_ContendedCallIsError ==
    [][\A s \in Slots :
          /\ (/\ WriteGuardElsewhere(s, slots[s].storage)
              /\ \E a \in Allocs : CastToSized(s, kind[a]))
                 => last'.res = "Err" /\ data' = data
          /\ (/\ WriteGuardElsewhere(s, "V")
              /\ \/ \E K \in KeyTypes, I \in ItemTypes : ClearView(s, K, I)
                 \/ \E t \in Slots, moved \in BOOLEAN, K \in KeyTypes,
                       I \in ItemTypes : SetInput(s, t, moved, K, I)
                 \/ \E m \in ViewModes, ks \in KeySeqs, K \in KeyTypes,
                       I \in ItemTypes : CreateView(s, m, ks, K, I))
                 => last'.res = "Err" /\ data' = data]_vars

\* a handle as build or storage_ptr_into_base returns it
RootHandle(h) ==
    /\ Live(h)
    /\ h.cap = "Storage"
    /\ h.vsc = "none"
    /\ h.storage = h.base_storage

\* C9: round trip -- for a backend of any concrete type, the handle that
\* storage_ptr_into_base returns is a root handle on the same allocation,
\* and cast_to_sized_storage of a root handle to the backend's concrete type
\* (made, as in the build -> to-root -> cast chain, with no write guard
\* outstanding) succeeds and yields a handle on the same allocation with the
\* same content.
C9_RoundTrip ==
    [][\A s \in Slots :
          /\ IntoBase(s) =>
                /\ RootHandle(slots'[s])
                /\ slots'[s].storage = slots[s].base_storage
                /\ data' = data
          /\ (/\ RootHandle(slots[s])
              /\ CanTryRead(lock[slots[s].storage])
              /\ CastToSized(s, kind[slots[s].storage])) =>
                /\ last'.res = "Ok"
                /\ slots'[s].cap = "Sized"
                /\ slots'[s].storage = slots[s].storage
                /\ slots'[s].base_storage = slots[s].storage
                /\ data' = data
                /\ kind' = kind]_vars

\* a view handle built with a controller went through storage_ptr_into_base
\* and was cast back to its concrete type
C9_Witness ==
    /\ last = Did("cast_to_sized_storage", "Ok")
    /\ \E s \in Slots :
          /\ slots[s].storage = "V"
          /\ slots[s].cap = "Sized"
          /\ slots[s].vsc = "none"

\* C10: a cast to a target interface succeeds if and only if the concrete
\* backend type is in that interface's candidate list, whatever capability
\* the handle is typed at; otherwise it fails with an error.
C10_CastIffCandidate ==
    [][\A s \in Slots, tr \in DynTraits, K \in KeyTypes, I \in ItemTypes :
          CastToDynTrait(s, tr, K, I) =>
              /\ last'.res \in {"Ok", "Err"}
              /\ last'.res = "Ok" <=>
                    kind[slots[s].storage] \in Range(Candidates(tr, K, I))]_vars

\* the handle h2 shares the data, the root reference and the view controller
\* of the handle h1
SharesWith(h2, h1) ==
    /\ h2.storage = h1.storage
    /\ h2.base_storage = h1.base_storage
    /\ h2.vsc = h1.vsc

\* C11: a clone and a successful cast produce a handle that shares the
\* underlying data, the root reference and the view controller of the
\* original and leave the data as it is; a write made through the write guard
\* of one handle is read back through every handle of the chain.
C11_SharedNotCopied ==
    [][/\ \A s, t \in Slots :
             (last' = Did("clone", "Ok") /\ Clone(s, t)) =>
                 /\ SharesWith(slots'[t], slots[s])
                 /\ slots'[s] = slots[s]
                 /\ data' = data
       /\ \A s \in Slots :
             (/\ last'.op \in {"cast_to_dyn", "cast_to_sized_storage"}
              /\ last'.res = "Ok"
              /\ \/ \E tr \in DynTraits, K \in KeyTypes, I \in ItemTypes :
                       CastToDynTrait(s, tr, K, I)
                 \/ \E ty \in SizedTargets : CastToSized(s, ty)) =>
                 /\ SharesWith(slots'[s], slots[s])
                 /\ data' = data
       /\ \A s \in Slots, k \in Keys, v \in Items :
             (last' = Did("get_mut", "Ok") /\ WriteItem(s, k, v)) =>
                 \A t \in Slots :
                     Live(slots'[t]) => HandleGet(data', slots'[t], k) = Some(v)]_vars

\* an item was overwritten through one handle while a second handle, typed
\* at another capability, exists: the second handle reads the new item
C11_Witness ==
    /\ last = Did("get_mut", "Ok")
    /\ \E s, t \in Slots, k \in Keys :
          /\ slots[s].guard = "write"
          /\ Live(slots[t])
          /\ slots[t].cap # slots[s].cap
          /\ data[k] # k
          /\ HandleGet(data, slots[t], k) = Some(data[k])

\* the tags of handle h name the Key and Item types of the backend behind it
TagsTrue(h) ==
    /\ h.key_type_id = kind[h.storage].key
    /\ h.item_type_id = kind[h.storage].item

\* C12: the Key and Item tags of every handle equal the true Key and Item
\* types of its backend, and every cast_to_* interface cast and every
\* cast_to_sized_storage whose requested Key or Item type differs from the
\* handle's tags fails.
C12_TagsTrueAndChecked ==
    [][/\ \A s \in Slots : Live(slots[s]) => TagsTrue(slots[s])
       /\ \A s \in Slots, tr \in NewTraits, K \in KeyTypes, I \in ItemTypes :
             (/\ K # slots[s].key_type_id \/ I # slots[s].item_type_id
              /\ CastToDynTrait(s, tr, K, I)) => last'.res = "Err"
       /\ \A s \in Slots, ty \in SizedTargets :
             (/\ ty.key # slots[s].key_type_id
                 \/ ty.item # slots[s].item_type_id
              /\ CastToSized(s, ty)) => last'.res = "Err"]_vars

\* C13: in every handle the root reference (base_storage) and the active
\* reference (storage) point to the same allocation, after any sequence of
\* construction, clone, cast and storage_ptr_into_base.
C13_RootIsActive ==
    \A s \in Slots : Live(slots[s]) => slots[s].base_storage = slots[s].storage

\* C14: in every call of the downcast (dyn_storage_into_sized, reached
\* through cast_to_sized_storage or a cast_to_* interface cast, or from a
\* casting function) a re-typed pointer is returned only when the shared lock was
\* obtained and the payload's type is exactly the target type -- for an
\* interface cast, one of the candidate types -- and the lock state after
\* the call is the lock state before it: the transient shared lock is gone.
C14_CheckedBeforeReinterpret ==
    [][/\ last'.op \in {"cast_to_sized_storage", "cast_to_dyn", "casting"} =>
             lock' = lock
       /\ last' = Did("cast_to_sized_storage", "Ok") =>
             \A s \in Slots, ty \in SizedTargets :
                 CastToSized(s, ty) =>
                     /\ CanTryRead(lock[slots[s].storage])
                     /\ kind[slots[s].storage] = ty
       /\ last' = Did("cast_to_dyn", "Ok") =>
             \A s \in Slots, tr \in DynTraits, K \in KeyTypes, I \in ItemTypes :
                 CastToDynTrait(s, tr, K, I) =>
                     /\ CanTryRead(lock[slots[s].storage])
                     /\ kind[slots[s].storage] \in Range(Candidates(tr, K, I))]_vars

\* a downcast to the concrete type succeeded while another handle held a
\* read guard: exactly that one reader remains on the lock
C14_Witness ==
    /\ last = Did("cast_to_sized_storage", "Ok")
    /\ \E s, t \in Slots :
          /\ slots[s].cap = "Sized"
          /\ slots[s].guard = "none"
          /\ slots[t].guard = "read"
          /\ slots[t].storage = slots[s].storage
          /\ lock[slots[s].storage].readers = 1

\* the Arcs that live handles, the view's fields and a waiting call own on
\* allocation a
OwnedRefs(a) ==
    SumRefs(slots, a, MaxHandles) + ViewRefs(view, a)
        + PendingRefs(pending, view, a)

\* C15: the strong count of every backend allocation equals the number of
\* references that live handles, controllers and the view hold on it -- after
\* every clone, cast (successful or failed) and storage_ptr_into_base, so
\* none of them leaks or duplicates a reference; the view backend is
\* destroyed (count zero, fields and lock gone) exactly when no handle or
\* controller refers to it, and every live handle's references point to
\* allocations that still exist.
C15_CountIsOwnership ==
    /\ \A a \in Allocs : rc[a] = OwnedRefs(a)
    /\ rc["V"] = 0 <=> ~ViewAlive(slots)
    /\ rc["V"] = 0 => view = FreshView /\ lock["V"] = FreshLock
    /\ \A s \in Slots :
          Live(slots[s]) =>
              rc[slots[s].storage] > 0 /\ rc[slots[s].base_storage] > 0

\* an interface cast has just failed and consumed its handle: the one handle
\* left holds the only two references to the backend
C15_Witness ==
    /\ last = Did("cast_to_dyn", "Err")
    /\ \E s \in Slots :
          /\ Live(slots[s])
          /\ \A t \in Slots \ {s} : ~Live(slots[t])
          /\ rc[slots[s].storage] = 2

\* a write guard on allocation a is outstanding: in the hands of a handle's
\* caller, retained by the view over a, or held by a controller call in
\* progress on the view storage
WriteGuardOut(a) ==
    \/ \E t \in Slots : slots[t].storage = a /\ slots[t].guard = "write"
    \/ view.input_storage = a /\ view.write_guard
    \/ a = "V" /\ pending.via = "controller"

\* a read guard on allocation a is outstanding
ReadGuardOut(a) ==
    \/ \E t \in Slots : slots[t].storage = a /\ slots[t].guard = "read"
    \/ view.input_storage = a /\ view.read_guard

\* the view-controller gate lets handle h through
PastGate(h) == h.vsc = "none" \/ status # "None"

\* C16: on a handle without a view controller, or whose controller's status
\* is not None, try_write succeeds iff no read or write guard on the same
\* data is outstanding and try_read succeeds iff no write guard is
\* outstanding (so a try_write after the last guard is dropped succeeds);
\* neither call ever waits.
C16_TryLockIffFree ==
    /\ \A s \in Slots :
          (Live(slots[s]) /\ PastGate(slots[s])) =>
              /\ HandleTryWrite(slots[s]) = "Ok" <=>
                    (/\ ~ReadGuardOut(slots[s].storage)
                     /\ ~WriteGuardOut(slots[s].storage))
              /\ HandleTryRead(slots[s]) = "Ok" <=>
                    ~WriteGuardOut(slots[s].storage)
    /\ last.op \in {"try_read", "try_write"} => last.res \in {"Ok", "Err"}

\* C17: storage_ptr_into_base succeeds on every handle that can be passed to
\* it -- whatever its capability, whatever guards are outstanding on the
\* data and whatever the view status -- takes and releases no lock, and
\* returns a root-capability handle whose active reference is the root
\* reference the argument retained.
C17_IntoBaseAlwaysSucceeds ==
    [][\A s \in Slots :
          /\ Idle(s) => ENABLED IntoBase(s)
          /\ (last'.op = "storage_ptr_into_base" /\ IntoBase(s)) =>
                /\ last'.res = "Ok"
                /\ Live(slots'[s])
                /\ slots'[s].cap = "Storage"
                /\ slots'[s].storage = slots[s].base_storage
                /\ slots'[s].base_storage = slots[s].base_storage
                /\ lock' = lock
                /\ slock' = slock
                /\ status' = status
                /\ view' = view]_vars

\* a view handle went through storage_ptr_into_base while the view was
\* active and another handle held a guard on the same view storage
C17_Witness ==
    /\ last = Did("storage_ptr_into_base", "Ok")
    /\ status \in {"Readable", "Writable"}
    /\ \E s, t \in Slots :
          /\ s # t
          /\ slots[s].cap = "Storage"
          /\ slots[s].vsc = "none"
          /\ slots[s].storage = "V"
          /\ slots[t].storage = "V"
          /\ slots[t].guard # "none"

\* the selected keys are all present in the source
SelectionPresent == \A i \in 1..Len(view.view_keys) : view.view_keys[i] \in DOMAIN data

\* C18: on an active read or write view with selection list S, get(i)
\* returns the source's item at key S[i] for every position i < |S| whose key
\* is present in the source, and nothing for i >= |S|.
C18_ViewGetIsSourceAtSelection ==
    last.op = "view.get" =>
        LET i == last.res[1]
            r == last.res[2]
            S == view.view_keys
        IN  /\ (i < Len(S) /\ S[i + 1] \in DOMAIN data) => r = Some(data[S[i + 1]])
            /\ i >= Len(S) => r = None

\* a write view over the selection <<1, 0, ..>> of a source with two
\* different items: get(0) gave the source's item at key 1
C18_Witness ==
    /\ view.write_guard
    /\ Len(view.view_keys) >= 2
    /\ view.view_keys[1] = 1
    /\ view.view_keys[2] = 0
    /\ data[0] # data[1]
    /\ last = Did("view.get", <<0, Some(data[1])>>)

\* C19: iterating an active view with selection list S yields, in selection
\* order, the pairs (i, source item at S[i]) for the positions i of S, so
\* that every yielded key k satisfies get(k) = the yielded item.
C19_IterYieldsPositions ==
    last.op = "view.key_item_iter" =>
        LET S == view.view_keys
            r == last.res
        IN  /\ \A j \in 1..Len(r) :
                  KeyItemViewGet(view, data, r[j][1]) = Some(r[j][2])
            /\ SelectionPresent =>
                  r = [i \in 1..Len(S) |-> <<i - 1, data[S[i]]>>]

\* C20: on an active read or write view with selection list S, contains(i)
\* is true exactly when i < |S| and the source contains the key S[i].
C20_ContainsIffSelectedAndPresent ==
    last.op = "view.contains" =>
        LET i == last.res[1]
            S == view.view_keys
        IN  last.res[2] <=> (i < Len(S) /\ S[i + 1] \in DOMAIN data)

\* what a write at position key of the selection list must do to the source d
\* and the view: nothing but the item at the selected key changes, and that
\* item, when the source has it, becomes v
WritesOnlySelected(key, v) ==
    LET S == view.view_keys
        k == S[key + 1]
    IN  /\ DOMAIN data' = DOMAIN data
        /\ \A j \in DOMAIN data \ {k} : data'[j] = data[j]
        /\ k \in DOMAIN data => data'[k] = v
        /\ view' = view

ControllerAlive(sl) == \E s \in Slots : sl[s].vsc # "none"

\* the view retains a guard on its source
ViewHoldsLock(vw) == vw.read_guard \/ vw.write_guard

\* the lock of the view's source is held in the mode of the retained guard
SourceHeldFor(lk, vw) ==
    /\ vw.input_storage # "none"
    /\ vw.read_guard => lk[vw.input_storage].readers > 0
    /\ vw.write_guard => lk[vw.input_storage].writer

\* the calls that run KeyItemViewStorage::clear_view: clear_view itself, and
\* set_input_storage, which starts with it
RunsClearView(l) ==
    l.op \in {"clear_view", "guard.clear_view", "set_input",
              "guard.set_input_storage"}

\* C22: once a view has been created, the lock it took on the source stays
\* held in every subsequent state -- across get, contains and iteration calls
\* and handle guards acquired and released on the view -- until clear_view
\* is called or the controller is destroyed; after either of those events the
\* source lock is released.
C22_LockHeldUntilClearOrDestroy ==
    [][ViewHoldsLock(view) =>
          /\ SourceHeldFor(lock, view)
          /\ (~RunsClearView(last') /\ ControllerAlive(slots')) =>
                 /\ view'.read_guard = view.read_guard
                 /\ view'.write_guard = view.write_guard
                 /\ view'.input_storage = view.input_storage
                 /\ SourceHeldFor(lock', view')
          /\ last' \in {Did("clear_view", "Ok"), Did("guard.clear_view", "Ok")} =>
                 /\ ~ViewHoldsLock(view')
                 /\ lock'[view.input_storage] =
                        ReleaseGuards(lock, view)[view.input_storage]
          /\ (ControllerAlive(slots) /\ ~ControllerAlive(slots')) =>
                 /\ ~ViewHoldsLock(view')
                 /\ lock'[view.input_storage] =
                        ReleaseGuards(lock, view)[view.input_storage]]_vars

\* C23: in every reachable state of the view backend at most one of the
\* retained read guard and the retained write guard is held, and whenever no
\* guard is retained the selected-key list is empty (len() = 0).
C23_OneGuardAndKeysOnlyUnderGuard ==
    /\ ~(view.read_guard /\ view.write_guard)
    /\ ~ViewHoldsLock(view) => KeyItemViewLen(view) = 0

\* a create_write_view was called on the backend while it retains a read
\* guard over a non-empty selection: the call has not obtained a second guard
C23_Witness ==
    /\ pending.op = "create_write_view"
    /\ view.read_guard
    /\ ~view.write_guard
    /\ KeyItemViewLen(view) > 0

\* set_input called while the status is Readable or Writable returns an
\* error and leaves the attached source, the selection, the retained guards,
\* the locks and the status unchanged
C24_RefusedWhileActive ==
    \A s, t \in Slots, moved \in BOOLEAN, K \in KeyTypes, I \in ItemTypes :
        (status \in {"Readable", "Writable"} /\ SetInput(s, t, moved, K, I)) =>
            /\ last'.res = "Err"
            /\ view' = view
            /\ lock' = lock
            /\ status' = status

\* what a successful set_input of the handle in slot t leaves
C24_Attached(t) ==
    /\ last'.res = "Ok"
    /\ ViewGetInputStorage(view') = Some(slots[t].base_storage)
    /\ status' = "None"

\* C24 as stated: set_input called while the status is Readable or Writable
\* returns an error and leaves the attached source, the selection and the
\* retained lock unchanged; called while the status is None it succeeds,
\* after which get_input_storage returns the given source and the status is
\* still None.
C24_AsStated ==
    [][/\ C24_RefusedWhileActive
       /\ \A s, t \in Slots, moved \in BOOLEAN, K \in KeyTypes, I \in ItemTypes :
             (status = "None" /\ SetInput(s, t, moved, K, I)) =>
                 C24_Attached(t)]_vars

\* the call set_input::<K, I>(handle in slot t) can go through: the type
\* parameters are the view's, the source has the type the view is declared
\* over, and the locks it takes -- the status cell (shared), the view storage
\* (exclusive) and, once the view's own guard is released, the source
\* (shared) -- can be taken
C24_CallCanGoThrough(t, K, I) ==
    /\ Live(slots[t])
    /\ K = kind["V"].key
    /\ I = kind["V"].item
    /\ kind[slots[t].base_storage] = InputStorageType(kind["V"])
    /\ CanTryRead(slock)
    /\ CanTryWrite(lock["V"])
    /\ CanTryRead(ReleaseGuards(lock, view)[slots[t].base_storage])

\* C24 (amended): set_input while the status is Readable or Writable returns
\* an error and changes nothing; while the status is None, called with the
\* view's Key and Item types and a source of the view's source type, with
\* the status cell and the view storage free and no write guard outstanding
\* on the source, it succeeds, get_input_storage then returns the given
\* source and the status is still None.
C24_SetInputByStatus ==
    [][/\ C24_RefusedWhileActive
       /\ \A s, t \in Slots, moved \in BOOLEAN, K \in KeyTypes, I \in ItemTypes :
             (/\ status = "None"
              /\ C24_CallCanGoThrough(t, K, I)
              /\ SetInput(s, t, moved, K, I)) =>
                 C24_Attached(t)]_vars

\* set_input succeeded in status None while a handle held a read guard on
\* the source: the source is attached and the status is still None
C24_Witness ==
    /\ last = Did("set_input", "Ok")
    /\ status = "None"
    /\ ViewGetInputStorage(view) = Some("A")
    /\ \E s \in Slots : slots[s].storage = "A" /\ slots[s].guard = "read"

\* C25: set_input with a source handle whose concrete backend type is not
\* the source type the view was declared over is a recoverable cast mismatch:
\* it returns an error, does not panic, does not poison the view's lock and
\* leaves the view's input and the status unchanged.
C25_MismatchedInputIsError ==
    [][\A s, t \in Slots, moved \in BOOLEAN, K \in KeyTypes, I \in ItemTypes :
          (/\ Live(slots[t])
           /\ kind[slots[t].base_storage] # InputStorageType(kind["V"])
           /\ SetInput(s, t, moved, K, I)) =>
              /\ last'.res = "Err"
              /\ lock'["V"].poisoned = lock["V"].poisoned
              /\ ViewGetInputStorage(view') = ViewGetInputStorage(view)
              /\ status' = status]_vars

\* C26: a per-key lookup (get, get_mut, contains) on an index-oriented
\* backend or on a view, given a key that cannot be converted to the index
\* domain (a negative key of a signed key type), returns the normal
\* not-found outcome (None / false) rather than aborting.
C26_UnconvertibleKeyIsNotFound ==
    (/\ last.op \in {"view.get", "view.get_mut", "view.contains", "get",
                     "contains"}
     /\ KeyTryInto(last.res[1]) = None) =>
        /\ Len(last.res) = 2
        /\ last.res[2] = (IF last.op \in {"view.contains", "contains"}
                          THEN FALSE ELSE None)

\* the status a successful controller call leaves
C27_NewStatus(op) ==
    CASE op = "clear_view" -> "None"
      [] op = "create_read_view" -> "Readable"
      [] op = "create_write_view" -> "Writable"

\* the handles that share the controller of the view storage
C27_Sharers(sl) == {t \in Slots : Live(sl[t]) /\ sl[t].vsc = "V"}

\* C27: the view status is shared by all clones of a handle and by all
\* handles derived from it by casts. A clone and the handle a successful
\* cast returns carry the controller of the handle they come from; after a
\* successful create_read_view, create_write_view or clear_view through the
\* controller of any one of them, status() on every one of them returns
\* the new value and the gate of their try_read / try_write is closed
\* exactly when that value is None.
C27_StatusSharedByClonesAndCasts ==
    [][/\ \A s, t \in Slots :
            (last'.op = "clone" /\ Clone(s, t)) =>
                slots'[t].vsc = slots[s].vsc
       /\ \A s \in Slots :
            (/\ last'.op \in {"cast_to_dyn", "cast_to_sized_storage"}
             /\ last'.res = "Ok"
             /\ slots'[s] # slots[s]) =>
                slots'[s].vsc = slots[s].vsc
       /\ (/\ last'.op \in {"clear_view", "create_read_view",
                             "create_write_view"}
           /\ last'.res = "Ok") =>
                /\ C27_Sharers(slots') = C27_Sharers(slots)
                /\ \A t \in C27_Sharers(slots') :
                     /\ ControllerStatus(slock', status')
                            = C27_NewStatus(last'.op)
                     /\ GateRefuses(slots[t])'
                            <=> (C27_NewStatus(last'.op) = "None")]_vars

\* a clone, cast to another capability, and the handle it was cloned from
\* share the controller, and a view was just created through one of them
C27_Witness ==
    /\ last = Did("create_write_view", "Ok")
    /\ status = "Writable"
    /\ \E s, t \in C27_Sharers(slots) :
         /\ s # t
         /\ slots[s].cap = "Storage"
         /\ slots[t].cap # "Storage"

\* C28: clear_view through the controller, when it returns Ok, leaves the
\* view with an empty selection list, no retained guard (the view no longer
\* holds the lock of its source) and status None; called in status None it
\* succeeds and changes nothing; it never modifies the source's items. The
\* call is made with the Key and Item types of the view.
C28_ClearViewResetsAndIsIdempotent ==
    [][\A s \in Slots :
        (/\ last'.op = "clear_view"
         /\ ClearView(s, kind["V"].key, kind["V"].item)) =>
         /\ data' = data
         /\ last'.res = "Ok" =>
               /\ KeyItemViewLen(view') = 0
               /\ ~view'.read_guard /\ ~view'.write_guard
               /\ lock' = ReleaseGuards(lock, view)
               /\ status' = "None"
         /\ status = "None" =>
               /\ last'.res = "Ok"
               /\ view' = view
               /\ lock' = lock
               /\ status' = status]_vars

\* C29: when the view backend holds no guard (freshly constructed, after
\* clear_view, or after set_input_storage), get and get_mut return None for
\* every key and contains returns false for every key, and nothing is
\* written.
C29_NoGuardNoItems ==
    [][(/\ last'.op \in {"view.get", "view.get_mut", "view.contains"}
        /\ ~ViewActive) =>
          /\ Len(last'.res) = 2
          /\ last'.res[2] = (IF last'.op = "view.contains" THEN FALSE ELSE None)
          /\ data' = data
          /\ lock' = lock]_vars

\* get_mut of an unconvertible key returned None on a view that has its
\* input and holds no guard
C29_Witness ==
    /\ ~ViewActive
    /\ view.input_storage = "A"
    /\ last = Returned("view.get_mut", 0 - MaxNegKey, None)

\* C30: the controller status always agrees with the guard retained by the
\* view backend: Readable iff the backend holds a read guard on the source,
\* Writable iff it holds a write guard, None iff it holds no guard -- under
\* any sequential mix of controller operations and of ViewStorageSetup
\* operations called on the backend through a handle's write guard.
C30_StatusAgreesWithGuard ==
    /\ status = "Readable" <=> view.read_guard
    /\ status = "Writable" <=> view.write_guard
    /\ status = "None" <=> ~ViewActive

\* C31: whenever create_read_view or create_write_view through the
\* controller returns an error, the status, the selected-key list, the
\* attached input, the retained guards and the lock of the source are
\* exactly what they were before the call.
C31_FailedCreateViewChangesNothing ==
    [][(/\ last'.op \in {"create_read_view", "create_write_view"}
        /\ last'.res = "Err") =>
          /\ status' = status
          /\ view' = view
          /\ \A a \in Allocs : a # "V" => lock'[a] = lock[a]
          /\ lock'["V"].poisoned = lock["V"].poisoned
          /\ slock'.poisoned = slock.poisoned]_vars

\* a create_write_view was refused while a read view over a non-empty
\* selection is active
C31_Witness ==
    /\ last = Did("create_write_view", "Err")
    /\ status = "Readable"
    /\ view.read_guard
    /\ view.view_keys # <<>>

\* C32: for any interleaving with other threads using clones of the same
\* handle (threads inside status(), the try_read / try_write gate or
\* create_*_view), a clear_view call either returns Ok with the backend
\* cleared and status None, or returns an error with the backend (keys and
\* retained guard) and the status unchanged.
C32_ClearViewIsAtomic ==
    [][last'.op = "clear_view" =>
         \/ /\ last'.res = "Ok"
            /\ view'.view_keys = <<>>
            /\ ~view'.read_guard /\ ~view'.write_guard
            /\ status' = "None"
         \/ /\ last'.res = "Err"
            /\ view' = view
            /\ status' = status
            /\ lock' = lock]_vars

\* a create_*_view call returned in this step
C33_Returned ==
    /\ last'.op \in ViewModes
    /\ last'.res # "Running"

\* C33: when two threads call create_read_view and/or create_write_view
\* through clones of the same controller, a call succeeds only from status
\* None and leaves a status that matches the single guard the backend
\* retains, so that at most one of two concurrent calls succeeds; a call
\* made while the other is inside returns an error at once and changes
\* nothing; no call waits or panics.
C33_OneConcurrentCreateWins ==
    [][C33_Returned =>
         /\ last'.res \in {"Ok", "Err"}
         /\ last'.res = "Ok" =>
               /\ status = "None"
               /\ status' = (IF last'.op = "create_read_view" THEN "Readable"
                             ELSE "Writable")
               /\ view'.read_guard <=> last'.op = "create_read_view"
               /\ view'.write_guard <=> last'.op = "create_write_view"
         /\ (pending # NoPending /\ pending' = pending) =>
               /\ last'.res = "Err"
               /\ UNCHANGED <<status, view, lock, slock>>]_vars

\* a handle other than the one in slot s holds a read or a write guard on
\* the view storage
C34_GuardOnViewElsewhere(s) ==
    \E t \in Slots :
        /\ t # s
        /\ Live(slots[t])
        /\ slots[t].storage = "V"
        /\ slots[t].guard # "none"

\* C34: a controller operation (clear_view, set_input, create_read_view,
\* create_write_view) called while a handle clone holds a read or a write
\* guard on the view storage itself returns an error value and changes
\* neither the status, the selection, the input nor the retained source
\* lock.
C34_GuardedViewStorageIsError ==
    [][\A s \in Slots :
          (/\ last'.op \in {"clear_view", "set_input", "create_read_view",
                            "create_write_view"}
           /\ pending = NoPending
           /\ C34_GuardOnViewElsewhere(s)
           /\ \/ \E K \in KeyTypes, I \in ItemTypes : ClearView(s, K, I)
              \/ \E t \in Slots, moved \in BOOLEAN, K \in KeyTypes,
                    I \in ItemTypes : SetInput(s, t, moved, K, I)
              \/ \E m \in ViewModes, ks \in KeySeqs, K \in KeyTypes,
                    I \in ItemTypes : CreateView(s, m, ks, K, I)) =>
              /\ last'.res = "Err"
              /\ status' = status
              /\ view' = view
              /\ lock'["A"] = lock["A"]]_vars

\* C35: while a read view is active (status Readable), no operation
\* available through the view -- get_mut and insert through a write guard
\* obtained with try_write on the view handle included -- changes any item
\* of the source storage.
C35_ReadableViewNeverWrites ==
    [][status = "Readable" => data' = data]_vars

\* C36: for an active view, the key set the view reports is consistent with
\* its lookups: every key produced by keys_iter() satisfies contains(key)
\* and get(key) returns an item, and the number of keys produced equals
\* len().
C36_KeysIterAgreesWithLookups ==
    (last.op = "view.keys_iter" /\ ViewActive) =>
        /\ Len(last.res) = KeyItemViewLen(view)
        /\ \A i \in 1..Len(last.res) :
              /\ KeyItemViewContains(view, data, last.res[i])
              /\ KeyItemViewGet(view, data, last.res[i]) # None

\* the items of the source d at the keys of the list from position i on
\* that d holds, in the order of the list
RECURSIVE C37_PresentItems(_, _, _)
C37_PresentItems(d, keys, i) ==
    IF i > Len(keys) THEN <<>>
    ELSE (IF keys[i] \in DOMAIN d THEN <<d[keys[i]]>> ELSE <<>>)
             \o C37_PresentItems(d, keys, i + 1)

\* C37: for an active view with selection list S, item_iter and
\* key_item_iter yield exactly one element for every position i of S whose
\* key S[i] is present in the source, in selection order; a selected key
\* that is absent from the source does not cut off the elements for the
\* positions after it.
C37_IterSkipsAbsentKeys ==
    /\ last.op = "view.item_iter" =>
          last.res = C37_PresentItems(data, view.view_keys, 1)
    /\ last.op = "view.key_item_iter" =>
          [j \in 1..Len(last.res) |-> last.res[j][2]]
              = C37_PresentItems(data, view.view_keys, 1)

\* C38: MutKeyItemStorage::insert(k, item) on the dense backend has map-like
\* semantics: afterwards get(k) is item and every other key j that was
\* present still maps to its previous item; if k is beyond the old length
\* the storage grows so that len() = k + 1 and the new intermediate keys
\* hold the default item.
C38_InsertIsMapLike ==
    [][last'.op = "insert" =>
         LET k == last'.res[1]
             item == last'.res[2]
         IN  /\ VecGet(data', k) = Some(item)
             /\ \A j \in DOMAIN data : j # k => VecGet(data', j) = Some(data[j])
             /\ k >= VecLen(data) =>
                   /\ VecLen(data') = k + 1
                   /\ \A j \in VecLen(data)..(k - 1) :
                         VecGet(data', j) = Some(DefaultItem)]_vars

\* C39: an index-oriented backend (dense, sparse, singleton) never exists
\* with a key type that is not index-convertible: every way of constructing
\* one with such a key type fails at construction, before any handle or
\* cast can observe it.
C39_NoIndexBackendWithoutIndexKey ==
    /\ \A s \in Slots :
          (/\ Live(slots[s])
           /\ kind[slots[s].storage].over \in {"Vec", "Sparse", "Val"}) =>
              SupportsIndex(kind[slots[s].storage].key)
    /\ (/\ last.op \in {"new", "new_from_iter", "default"}
        /\ kind["A"].over \in {"Vec", "Sparse", "Val"}
        /\ ~SupportsIndex(kind["A"].key)) => last.res = "Panic"

====
